---- MODULE Spec2Model ----
(***************************************************************************)
(* RPCManager: network registry, endpoint health cache, client cache and   *)
(* the failover walk that picks a working endpoint.  Every call of an      *)
(* asynchronous method is a task of its own, suspended at each remote call.*)
(***************************************************************************)
EXTENDS Integers, Sequences, FiniteSets, TLC

(* ------------------------------ bounds --------------------------------- *)

\* number of createClient / getClientWithRPC calls in one behaviour; all of
\* them may be in flight at once (wallets and networks are queried in parallel)
MaxCalls == 2

\* the clock is observed around multiples of the TTL, up to this multiple
MaxPeriods == 1

(* ----------------------------- registry -------------------------------- *)

HEALTH_CHECK_TTL == 5 * 60 * 1000

CACHE_DURATION == 30 * 60 * 1000

\* Entries of the registry table, in registration order.  The table of the
\* program has 51 entries; these are the entries at lines 289, 300 and 380,
\* which include both entries that carry chain id 999.
networkConfigs ==
  << [ chainId |-> 480, name |-> "World Chain", chain |-> "World Chain",
       rpcUrls |-> << "https://worldchain-mainnet.g.alchemy.com/public",
                      "https://worldchain-mainnet.gateway.tenderly.co" >>,
       multicallAddress |-> "0xcA11bde05977b3631167028862bE2a173976CA11" ],
     [ chainId |-> 999, name |-> "HyperEVM", chain |-> "HyperEVM",
       rpcUrls |-> << "https://rpc.hyperliquid.xyz/evm",
                      "https://rpc.hyperlend.finance",
                      "https://hyperliquid-json-rpc.stakely.io",
                      "https://hyperliquid.drpc.org" >>,
       multicallAddress |-> "0xcA11bde05977b3631167028862bE2a173976CA11" ],
     [ chainId |-> 999, name |-> "Hyperliquid", chain |-> "Hyperliquid",
       rpcUrls |-> << "https://hyperliquid.drpc.org",
                      "https://rpc.hyperliquid.xyz/evm",
                      "https://hyperliquid-json-rpc.stakely.io" >>,
       multicallAddress |-> "" ] >>

\* chain ids that no entry of the table carries
UnknownChainIds == { 31337 }

Range(s) == { s[i] : i \in DOMAIN s }

getSupportedChainIds == [ i \in DOMAIN networkConfigs |-> networkConfigs[i].chainId ]

\* chain ids handed to getClientWithRPC
ChainIdInputs == Range(getSupportedChainIds) \cup UnknownChainIds

\* chain ids handed to createClient: the two-endpoint network and an unknown id
CreateClientInputs == { networkConfigs[1].chainId } \cup UnknownChainIds

\* endpoints handed to getClientWithRPC: the first endpoint of every entry
RpcUrlInputs == { networkConfigs[i].rpcUrls[1] : i \in DOMAIN networkConfigs }

getNetworkConfig_orFirst(chainId) ==
  LET hits == { i \in DOMAIN networkConfigs : networkConfigs[i].chainId = chainId }
  IN  IF hits = {} THEN << networkConfigs[1] >>
      ELSE << networkConfigs[CHOOSE i \in hits : \A j \in hits : i <= j] >>

getNetworkConfig_findLast(chainId) ==
  LET hits == { i \in DOMAIN networkConfigs : networkConfigs[i].chainId = chainId }
  IN  IF hits = {} THEN << >>
      ELSE << networkConfigs[CHOOSE i \in hits : \A j \in hits : i >= j] >>

\* Array.prototype.find: the element at the least index that satisfies the
\* test; the result is an option, <<>> standing for null.
getNetworkConfig(chainId) ==
  LET hits == { i \in DOMAIN networkConfigs : networkConfigs[i].chainId = chainId }
  IN  IF hits = {} THEN << >>
      ELSE << networkConfigs[CHOOSE i \in hits : \A j \in hits : i <= j] >>

(* ------------------------------- state --------------------------------- *)

VARIABLES
  clientCache,   \* Map<number, PublicClient>
  healthCache,   \* Map<string, HealthCheckResult>
  now,           \* Date.now()
  calls,         \* the calls made so far, in call order
  batched,       \* the checkTokenBalances call under study and its locals
  batchTasks,    \* one task per batch: its rotation loop and its outcome
  network,       \* what checkSingleNetwork builds from the returned records
  evaluated,     \* the latest application of a synchronous function
  orphans,       \* aggregate requests that timed out and are still in flight
  memoryCache,   \* TokenListManager: Map<string, CachedData>
  wallet,        \* the BalanceChecker.checkAllNetworks call under study
  availability,  \* the RPCManager.checkAllNetworks call under study
  fileCache,     \* TokenListManager: the files cache/tokens_<chainId>.json
  lookup,        \* the TokenListManager.getTokensForChain call under study
  multi          \* the BalanceChecker.checkMultipleWallets call under study

\* state of the Multicall3Service call and of its caller
aggVars == << batched, batchTasks, network >>

\* state of the calls that the RPCManager and aggregator actions leave alone
restVars == << orphans, memoryCache, wallet, availability, fileCache, lookup, multi >>

vars == << clientCache, healthCache, now, calls, batched, batchTasks, network,
           evaluated, orphans, memoryCache, wallet, availability, fileCache, lookup, multi >>

EmptyMap == [ k \in {} |-> k ]

MapSet(m, key, val) == [ k \in DOMAIN m \cup { key } |-> IF k = key THEN val ELSE m[k] ]

cacheKey(rpcUrl) == << "health_", rpcUrl >>

\* instants at which the clock is read
TimePoints == { p * HEALTH_CHECK_TTL + d : p \in 0 .. MaxPeriods, d \in { -1, 0 } } \cap Nat

NoReturn == [ kind |-> "none" ]
ReturnClient(c) == [ kind |-> "client", client |-> c ]
Throw(e) == [ kind |-> "error", error |-> e ]

\* One call: pc is where it is suspended ("done" once it has returned), op /
\* chainId / rpcUrl the method and its arguments, config / idx / rpc the
\* locals of createClient and findWorkingRPC, seen the verdicts its walk has
\* obtained, ret what it returned.
NewCall(op, chainId, rpcUrl, config) ==
  [ pc |-> "done", op |-> op, chainId |-> chainId, rpcUrl |-> rpcUrl,
    config |-> config, idx |-> 0, seen |-> << >>, rpc |-> << >>,
    ret |-> NoReturn ]

\* no checkTokenBalances call has been made
NoBatched ==
  [ pc |-> "idle", chainId |-> 0, tokens |-> << >>, batchSize |-> 0,
    batches |-> << >>, rpcUrls |-> << >>, i |-> 0, batchResults |-> << >>,
    ret |-> << >> ]

\* a batch whose task has not been started
Pending == [ pc |-> "pending", attempt |-> 0, rpcs |-> << >>, result |-> << >> ]

\* checkSingleNetwork has built no result
NoNetwork == << >>

\* no function has been applied
NotEvaluated == [ op |-> "none" ]

\* checkAllNetworks of the BalanceChecker has not been called
NoWallet == [ pc |-> "idle", chainIds |-> << >>, queries |-> << >>, result |-> << >> ]

\* checkAllNetworks of the RPCManager has not been called
NoAvailability == [ pc |-> "idle", i |-> 0, idx |-> 0, results |-> << >> ]

\* checkMultipleWallets has not been called
NoMulti ==
  [ pc |-> "idle", walletAddresses |-> << >>, i |-> 0, tasks |-> << >>,
    walletResults |-> << >>, totalUsdValue |-> << >>, ret |-> << >> ]

\* getTokensForChain has not been called.  fetchedAt is a history of the
\* model: for each cache key, the instant of the API answer that was cached
\* last; at and fetched are the instant of the return and the instant at
\* which the returned list was fetched
NoLookup ==
  [ pc |-> "idle", chainId |-> 0, from |-> "none", ret |-> << >>,
    at |-> 0, fetched |-> 0, fetchedAt |-> EmptyMap ]

Init ==
  /\ orphans = {}
  /\ memoryCache = EmptyMap
  /\ fileCache = EmptyMap
  /\ lookup = NoLookup
  /\ multi = NoMulti
  /\ wallet = NoWallet
  /\ availability = NoAvailability
  /\ clientCache = EmptyMap
  /\ healthCache = EmptyMap
  /\ now = 0
  /\ calls = << >>
  /\ batched = NoBatched
  /\ batchTasks = << >>
  /\ network = NoNetwork
  /\ evaluated = NotEvaluated

(* -------------------------- endpoint selection ------------------------- *)

IsFresh_inclusive(cached, time) == time - cached.lastCheck <= HEALTH_CHECK_TTL

\* checkRPCHealth, the cache test: the cached verdict is reused while it is
\* younger than the TTL.
IsFresh(cached, time) == time - cached.lastCheck < HEALTH_CHECK_TTL

findWorkingRPC_skipsLast(r, verdict, probed) ==
  LET rpcUrls == r.config[1].rpcUrls
      seen == Append(r.seen, [ verdict |-> verdict, probed |-> probed ])
  IN  IF verdict
        THEN [ r EXCEPT !.pc = "smoke", !.seen = seen, !.rpc = << rpcUrls[r.idx] >> ]
      ELSE IF r.idx + 1 < Len(rpcUrls)
        THEN [ r EXCEPT !.pc = "health", !.seen = seen, !.idx = r.idx + 1 ]
      ELSE [ r EXCEPT !.pc = "done", !.seen = seen,
                      !.ret = Throw("NoHealthyEndpoint") ]

findWorkingRPC_fallsBack(r, verdict, probed) ==
  LET rpcUrls == r.config[1].rpcUrls
      seen == Append(r.seen, [ verdict |-> verdict, probed |-> probed ])
  IN  IF verdict
        THEN [ r EXCEPT !.pc = "smoke", !.seen = seen, !.rpc = << rpcUrls[r.idx] >> ]
      ELSE IF r.idx < Len(rpcUrls)
        THEN [ r EXCEPT !.pc = "health", !.seen = seen, !.idx = r.idx + 1 ]
      ELSE [ r EXCEPT !.pc = "smoke", !.seen = seen, !.rpc = << rpcUrls[1] >> ]

\* findWorkingRPC after the verdict for the endpoint at r.idx is known: a
\* healthy endpoint ends the walk, an unhealthy one moves it to the next
\* endpoint, and the end of the list ends it with null.  createClient then
\* builds the client on the endpoint found and sends the smoke test, or
\* throws when there is none.
findWorkingRPC(r, verdict, probed) ==
  LET rpcUrls == r.config[1].rpcUrls
      seen == Append(r.seen, [ verdict |-> verdict, probed |-> probed ])
  IN  IF verdict
        THEN [ r EXCEPT !.pc = "smoke", !.seen = seen, !.rpc = << rpcUrls[r.idx] >> ]
      ELSE IF r.idx < Len(rpcUrls)
        THEN [ r EXCEPT !.pc = "health", !.seen = seen, !.idx = r.idx + 1 ]
      ELSE [ r EXCEPT !.pc = "done", !.seen = seen,
                      !.ret = Throw("NoHealthyEndpoint") ]

checkRPCHealth_onlyHealthy(r) ==
  LET key == cacheKey(r.config[1].rpcUrls[r.idx])
  IN  IF /\ key \in DOMAIN healthCache
         /\ IsFresh(healthCache[key], now)
         /\ healthCache[key].isHealthy
        THEN findWorkingRPC(r, healthCache[key].isHealthy, FALSE)
        ELSE [ r EXCEPT !.pc = "probing" ]

\* checkRPCHealth up to its first suspension: a fresh cached verdict is
\* returned at once, otherwise the probe is sent.
checkRPCHealth(r) ==
  LET key == cacheKey(r.config[1].rpcUrls[r.idx])
  IN  IF key \in DOMAIN healthCache /\ IsFresh(healthCache[key], now)
        THEN findWorkingRPC(r, healthCache[key].isHealthy, FALSE)
        ELSE [ r EXCEPT !.pc = "probing" ]

hasClient_whileHealthy(chainId) ==
  /\ chainId \in DOMAIN clientCache
  /\ LET key == cacheKey(clientCache[chainId].rpc)
     IN  key \in DOMAIN healthCache /\ IsFresh(healthCache[key], now)

\* clientCache.has(chainId)
hasClient(chainId) == chainId \in DOMAIN clientCache

\* createClient, from the call to its first suspension
createClient(chainId) ==
  /\ Len(calls) < MaxCalls
  /\ LET config == getNetworkConfig(chainId)
         r == NewCall("createClient", chainId, << >>, config)
     IN  calls' = Append(calls,
           IF hasClient(chainId)
             THEN [ r EXCEPT !.ret = ReturnClient(clientCache[chainId]) ]
           ELSE IF config = << >>
             THEN [ r EXCEPT !.ret = Throw("UnsupportedNetwork") ]
           ELSE IF Len(config[1].rpcUrls) = 0
             THEN [ r EXCEPT !.ret = Throw("NoHealthyEndpoint") ]
           ELSE checkRPCHealth([ r EXCEPT !.idx = 1 ]))
  /\ UNCHANGED << clientCache, healthCache, now, aggVars, evaluated, restVars >>

\* the walk of call i resumes with the next endpoint of the list
nextEndpoint(i) ==
  /\ calls[i].pc = "health"
  /\ calls' = [ calls EXCEPT ![i] = checkRPCHealth(calls[i]) ]
  /\ UNCHANGED << clientCache, healthCache, now, aggVars, evaluated, restVars >>

\* the probe's getBlockNumber answers (ok) or fails / times out (~ok)
probeReturns(i, ok) ==
  /\ calls[i].pc = "probing"
  /\ LET rpcUrl == calls[i].config[1].rpcUrls[calls[i].idx]
     IN  healthCache' = MapSet(healthCache, cacheKey(rpcUrl),
                               [ isHealthy |-> ok, lastCheck |-> now ])
  /\ calls' = [ calls EXCEPT ![i] = findWorkingRPC(calls[i], ok, TRUE) ]
  /\ UNCHANGED << clientCache, now, aggVars, evaluated, restVars >>

smokeReturns_marksUnhealthy(i, ok) ==
  /\ calls[i].pc = "smoke"
  /\ LET r == calls[i]
         client == [ id |-> i, chain |-> r.config[1].chain, rpc |-> r.rpc[1] ]
     IN  IF ok
           THEN /\ clientCache' = MapSet(clientCache, r.chainId, client)
                /\ healthCache' = healthCache
                /\ calls' = [ calls EXCEPT ![i] = [ r EXCEPT !.pc = "done",
                                                      !.ret = ReturnClient(client) ] ]
           ELSE /\ clientCache' = clientCache
                /\ healthCache' = MapSet(healthCache, cacheKey(r.rpc[1]),
                                         [ isHealthy |-> FALSE, lastCheck |-> now ])
                /\ calls' = [ calls EXCEPT ![i] = [ r EXCEPT !.pc = "done",
                                                      !.ret = Throw("ClientCreationFailed") ] ]
  /\ UNCHANGED << now, aggVars, evaluated, restVars >>

\* the smoke test of the new client answers or fails; the client that call i
\* constructs is identified by i
smokeReturns(i, ok) ==
  /\ calls[i].pc = "smoke"
  /\ LET r == calls[i]
         client == [ id |-> i, chain |-> r.config[1].chain, rpc |-> r.rpc[1] ]
     IN  IF ok
           THEN /\ clientCache' = MapSet(clientCache, r.chainId, client)
                /\ calls' = [ calls EXCEPT ![i] = [ r EXCEPT !.pc = "done",
                                                      !.ret = ReturnClient(client) ] ]
           ELSE /\ clientCache' = clientCache
                /\ calls' = [ calls EXCEPT ![i] = [ r EXCEPT !.pc = "done",
                                                      !.ret = Throw("ClientCreationFailed") ] ]
  /\ UNCHANGED << healthCache, now, aggVars, evaluated, restVars >>

getClientWithRPC_firstEndpoint(chainId, rpcUrl) ==
  /\ Len(calls) < MaxCalls
  /\ LET networkConfig == getNetworkConfig(chainId)
         r == NewCall("getClientWithRPC", chainId, << rpcUrl >>, networkConfig)
     IN  calls' = Append(calls,
           IF networkConfig = << >>
             THEN [ r EXCEPT !.ret = Throw("UnsupportedNetwork") ]
             ELSE [ r EXCEPT !.ret = ReturnClient(
                      [ id |-> Len(calls) + 1, chain |-> networkConfig[1].chain,
                        rpc |-> networkConfig[1].rpcUrls[1] ]) ])
  /\ UNCHANGED << clientCache, healthCache, now, aggVars, evaluated, restVars >>

\* getClientWithRPC has no suspension: it runs from call to return
getClientWithRPC(chainId, rpcUrl) ==
  /\ Len(calls) < MaxCalls
  /\ LET networkConfig == getNetworkConfig(chainId)
         r == NewCall("getClientWithRPC", chainId, << rpcUrl >>, networkConfig)
     IN  calls' = Append(calls,
           IF networkConfig = << >>
             THEN [ r EXCEPT !.ret = Throw("UnsupportedNetwork") ]
             ELSE [ r EXCEPT !.ret = ReturnClient(
                      [ id |-> Len(calls) + 1, chain |-> networkConfig[1].chain,
                        rpc |-> rpcUrl ]) ])
  /\ UNCHANGED << clientCache, healthCache, now, aggVars, evaluated, restVars >>

clearCache_clientsOnly ==
  /\ clientCache' = EmptyMap
  /\ UNCHANGED << healthCache, now, calls, aggVars, evaluated, restVars >>

clearCache ==
  /\ clientCache' = EmptyMap
  /\ healthCache' = EmptyMap
  /\ UNCHANGED << now, calls, aggVars, evaluated, restVars >>

closeAllConnections ==
  /\ clientCache' = EmptyMap
  /\ healthCache' = EmptyMap
  /\ UNCHANGED << now, calls, aggVars, evaluated, restVars >>

\* time passes
Tick ==
  /\ \E time \in TimePoints : time > now /\ now' = time
  /\ UNCHANGED << clientCache, healthCache, calls, aggVars, evaluated, restVars >>

Next ==
  \/ \E chainId \in CreateClientInputs : createClient(chainId)
  \/ \E i \in DOMAIN calls : nextEndpoint(i)
  \/ \E i \in DOMAIN calls, ok \in BOOLEAN : probeReturns(i, ok)
  \/ \E i \in DOMAIN calls, ok \in BOOLEAN : smokeReturns(i, ok)
  \/ \E chainId \in ChainIdInputs, rpcUrl \in RpcUrlInputs :
       getClientWithRPC(chainId, rpcUrl)
  \/ clearCache
  \/ closeAllConnections
  \/ Tick

Spec == Init /\ [][Next]_vars

(* ---------------------- strings, numbers, payloads --------------------- *)

\* length of the token lists and aggregate responses that are enumerated in
\* full (every combination of catalog tokens and of sub-call results)
MaxTokens == 2

\* A string is the sequence of its characters.
Digits == << "0", "1", "2", "3", "4", "5", "6", "7", "8", "9" >>

IsDigit(c) == \E d \in DOMAIN Digits : Digits[d] = c

DigitValue(c) == ( CHOOSE d \in DOMAIN Digits : Digits[d] = c ) - 1

RECURSIVE Pow10(_)
Pow10(e) == IF e = 0 THEN 1 ELSE 10 * Pow10(e - 1)

\* BigInt.prototype.toString of a non-negative value
RECURSIVE toString(_)
toString(n) ==
  IF n < 10 THEN << Digits[n + 1] >>
  ELSE toString(n \div 10) \o << Digits[(n % 10) + 1] >>

\* String.prototype.padStart with a one-character fill
RECURSIVE padStart(_, _, _)
padStart(s, targetLength, fill) ==
  IF Len(s) >= targetLength THEN s ELSE padStart(<< fill >> \o s, targetLength, fill)

\* replace(/0+$/, '')
RECURSIVE trimZeros(_)
trimZeros(s) ==
  IF s # << >> /\ s[Len(s)] = "0" THEN trimZeros(SubSeq(s, 1, Len(s) - 1)) ELSE s

\* A number is num / den with den a power of ten, in lowest such terms; NaN
\* is the empty option.
NaN == << >>

RECURSIVE Number(_, _)
Number(num, den) ==
  IF num = 0 THEN [ num |-> 0, den |-> 1 ]
  ELSE IF den > 1 /\ num % 10 = 0 THEN Number(num \div 10, den \div 10)
  ELSE [ num |-> num, den |-> den ]

Times(a, b) == Number(a.num * b.num, a.den * b.den)

RECURSIVE DigitsValue(_)
DigitsValue(s) ==
  IF s = << >> THEN 0
  ELSE 10 * DigitsValue(SubSeq(s, 1, Len(s) - 1)) + DigitValue(s[Len(s)])

\* number of digits at the head of s
DigitsPrefix(s) ==
  CHOOSE k \in 0 .. Len(s) :
    /\ \A i \in 1 .. k : IsDigit(s[i])
    /\ k < Len(s) => ~IsDigit(s[k + 1])

\* parseFloat: an optional sign, then the longest decimal literal at the head
\* of the string (digits, optionally a point and digits); what follows it is
\* ignored, and a string with no such literal gives NaN.  Exponents, leading
\* blanks and Infinity do not occur in the strings used here.
parseFloat(string) ==
  LET signed == string # << >> /\ string[1] \in { "-", "+" }
      sign == IF signed /\ string[1] = "-" THEN -1 ELSE 1
      body == IF signed THEN Tail(string) ELSE string
      w == DigitsPrefix(body)
      rest == SubSeq(body, w + 1, Len(body))
      pointed == rest # << >> /\ rest[1] = "."
      f == IF pointed THEN DigitsPrefix(Tail(rest)) ELSE 0
      whole == DigitsValue(SubSeq(body, 1, w))
      frac == DigitsValue(SubSeq(body, w + 2, w + 1 + f))
  IN  IF w = 0 /\ f = 0 THEN NaN
      ELSE << Number(sign * (whole * Pow10(f) + frac), Pow10(f)) >>

\* formatTokenBalance on balances and precisions that fit a machine integer
\* (for the wide ones see formatTokenBalanceBigInt).  BigInt(10 ** decimals)
\* throws for a precision that is not a non-negative integer; the result is
\* an option, << >> for the throw.
formatTokenBalance(balance, decimals) ==
  IF decimals < 0 THEN << >>
  ELSE LET divisor == Pow10(decimals)
           wholePart == balance \div divisor
           fractionalPart == balance % divisor
           fractionalStr == padStart(toString(fractionalPart), decimals, "0")
           trimmedFractional == trimZeros(fractionalStr)
       IN  IF fractionalPart = 0 THEN << toString(wholePart) >>
           ELSE IF trimmedFractional = << >> THEN << toString(wholePart) >>
           ELSE << toString(wholePart) \o << "." >> \o trimmedFractional >>

\* A bigint too wide for a machine integer is the sequence of its decimal
\* digits, most significant first, with no leading zero (0 is << 0 >>).
BigTrim(a) ==
  LET significant == { i \in DOMAIN a : a[i] # 0 }
      first == CHOOSE i \in significant : \A j \in significant : i <= j
  IN  IF significant = {} THEN << 0 >> ELSE SubSeq(a, first, Len(a))

Zeros(n) == [ i \in 1 .. n |-> 0 ]

\* a < b for digits i + 1 .. Len(a) of two digit sequences of one length
LessAfter(a, b, i) ==
  \E j \in i + 1 .. Len(a) :
    a[j] < b[j] /\ \A k \in i + 1 .. j - 1 : a[k] = b[k]

BigLeq(a, b) ==
  Len(a) < Len(b) \/ ( Len(a) = Len(b) /\ ~LessAfter(b, a, 0) )

\* a - b for a >= b: digit i borrows when the digits after it of a are
\* less than those of b
BigSub(a, b) ==
  LET subtrahend == Zeros(Len(a) - Len(b)) \o b
  IN  BigTrim([ i \in DOMAIN a |->
                  ( a[i] - subtrahend[i]
                      - IF LessAfter(a, subtrahend, i) THEN 1 ELSE 0 ) % 10 ])

\* how many times b goes into r, and what is left: r = k * b + rest
RECURSIVE Reduce(_, _, _)
Reduce(r, b, k) ==
  IF BigLeq(b, r) THEN Reduce(BigSub(r, b), b, k + 1) ELSE [ k |-> k, r |-> r ]

\* long division of a by b from digit i on, with the quotient digits q and
\* the remainder r of the digits before i
RECURSIVE BigDivModFrom(_, _, _, _, _)
BigDivModFrom(a, b, i, q, r) ==
  IF i > Len(a) THEN [ q |-> BigTrim(q), r |-> r ]
  ELSE LET step == Reduce(BigTrim(r \o << a[i] >>), b, 0)
       IN  IF step.k < 10
             THEN BigDivModFrom(a, b, i + 1, q \o << step.k >>, step.r)
             ELSE [ q |-> << >>, r |-> << >> ]

\* bigint division and remainder, a / b and a % b, for b > 0
BigDivMod(a, b) == BigDivModFrom(a, b, 1, << 0 >>, << 0 >>)

\* BigInt.prototype.toString
BigToString(a) == [ i \in DOMAIN a |-> Digits[a[i] + 1] ]

\* precisions up to which 10 ** decimals is a power of ten that a double
\* holds exactly (5^22 < 2^53 < 5^23)
ExactPow10 == 22

\* BigInt(10 ** decimals) for 0 <= decimals <= 23.  10 ** decimals is a
\* double: up to 10^22 it is the power of ten itself; 10^23 lies halfway
\* between two doubles (they are 2^24 apart), and the exponentiation gives
\* one of the two, which one depends on the engine's pow.
BigIntPow10(decimals) ==
  IF decimals <= ExactPow10 THEN { << 1 >> \o Zeros(decimals) }
  ELSE { << 9,9,9,9,9,9,9,9,9,9,9,9,9,9,9,9,1,6,1,1,3,9,2 >>,
         << 1,0,0,0,0,0,0,0,0,0,0,0,0,0,0,0,0,8,3,8,8,6,0,8 >> }

\* formatTokenBalance on bigints of any width, with divisor the value
\* BigInt(10 ** decimals) took
formatTokenBalanceBigInt(balance, decimals, divisor) ==
  LET dm == BigDivMod(balance, divisor)
      wholePart == dm.q
      fractionalPart == dm.r
      fractionalStr == padStart(BigToString(fractionalPart), decimals, "0")
      trimmedFractional == trimZeros(fractionalStr)
  IN  IF fractionalPart = << 0 >> THEN BigToString(wholePart)
      ELSE IF trimmedFractional = << >> THEN BigToString(wholePart)
      ELSE BigToString(wholePart) \o << "." >> \o trimmedFractional

calculateUSDValue_dropsUnpriced(balance, decimals, priceUSD) ==
  LET price == parseFloat(priceUSD)
  IN  IF price = NaN \/ price[1].num <= 0 THEN << >>
      ELSE IF formatTokenBalance(balance, decimals) = << >> THEN << >>
      ELSE << Times(parseFloat(formatTokenBalance(balance, decimals)[1])[1], price[1]) >>

\* calculateUSDValue; an option like formatTokenBalance, which it calls
calculateUSDValue(balance, decimals, priceUSD) ==
  LET price == parseFloat(priceUSD)
  IN  IF price = NaN \/ price[1].num <= 0 THEN << Number(0, 1) >>
      ELSE IF formatTokenBalance(balance, decimals) = << >> THEN << >>
      ELSE << Times(parseFloat(formatTokenBalance(balance, decimals)[1])[1], price[1]) >>

\* Return data of a sub-call: its size in bytes and the unsigned integer its
\* first 32 bytes encode.
EmptyData == [ size |-> 0, value |-> 0 ]
ShortData == [ size |-> 4, value |-> 0 ]
Uint256(v) == [ size |-> 32, value |-> v ]

\* decodeFunctionResult for balanceOf: zero data and data shorter than one
\* word throw, anything else decodes to the integer of the first word.
decodeFunctionResult(data) ==
  IF data.size = 0 THEN [ error |-> "Cannot decode zero data", value |-> 0 ]
  ELSE IF data.size < 32 THEN [ error |-> "Data size too small", value |-> 0 ]
  ELSE [ error |-> "", value |-> data.value ]

(* ------------------------- tokens and batches -------------------------- *)

\* TokenInfo entries of the catalog, by token address: every combination of
\* precision and unit price the aggregator treats differently.
Catalog ==
  << [ decimals |-> 0,  priceUSD |-> << "1" >> ],
     [ decimals |-> 6,  priceUSD |-> << "2", ".", "5" >> ],
     [ decimals |-> 0,  priceUSD |-> << "0" >> ],
     [ decimals |-> 6,  priceUSD |-> << "-", "1" >> ],
     [ decimals |-> 0,  priceUSD |-> << >> ],
     [ decimals |-> 6,  priceUSD |-> << "a", "b", "c" >> ],
     [ decimals |-> 0,  priceUSD |-> << "2", "a" >> ],
     [ decimals |-> -1, priceUSD |-> << "1" >> ] >>

\* A token list is held as the sequence of its token addresses; the token
\* at address a is the catalog entry a falls on.
TokenInfo(address) ==
  LET t == Catalog[((address - 1) % Len(Catalog)) + 1]
  IN  [ address |-> address, decimals |-> t.decimals, priceUSD |-> t.priceUSD ]

\* the token list with addresses 1 .. n
TokenList(n) == [ a \in 1 .. n |-> a ]

\* sequences over S of length at most n
RECURSIVE SeqsUpTo(_, _)
SeqsUpTo(S, n) ==
  IF n = 0 THEN { << >> }
  ELSE LET shorter == SeqsUpTo(S, n - 1)
       IN  shorter \cup { Append(s, x) : s \in { t \in shorter : Len(t) = n - 1 }, x \in S }

\* results a sub-call of aggregate3 can carry: a revert with its error data,
\* and a success with no data, with truncated data, with balance 0 and with a
\* positive balance
RevertData == [ size |-> 100, value |-> 147028384 ]

HeldBalance == 1500000

SubCallResults ==
  { [ success |-> FALSE, returnData |-> RevertData ],
    [ success |-> TRUE,  returnData |-> EmptyData ],
    [ success |-> TRUE,  returnData |-> ShortData ],
    [ success |-> TRUE,  returnData |-> Uint256(0) ],
    [ success |-> TRUE,  returnData |-> Uint256(HeldBalance) ] }

executeMulticallWithRPC_ignoresSuccess(tokens, results) ==
  LET idx == [ i \in 1 .. Len(tokens) |-> i ]
      balance(i) == decodeFunctionResult(results[i].returnData)
      token(i) == TokenInfo(tokens[i])
      pushed(i) ==
        /\ i <= Len(results)
        /\ balance(i).error = ""
        /\ formatTokenBalance(balance(i).value, token(i).decimals) # << >>
      kept == SelectSeq(idx, pushed)
      balanceResults ==
        [ k \in 1 .. Len(kept) |->
            LET i == kept[k]
            IN  [ address |-> token(i).address,
                  balance |-> balance(i).value,
                  balanceFormatted |->
                    formatTokenBalance(balance(i).value, token(i).decimals)[1],
                  decimals |-> token(i).decimals,
                  usdValue |-> calculateUSDValue(balance(i).value, token(i).decimals,
                                                 token(i).priceUSD)[1],
                  priceUSD |-> token(i).priceUSD ] ]
  IN  << SelectSeq(balanceResults, LAMBDA r : r.balance > 0) >>

executeMulticallWithRPC_keepsZero(tokens, results) ==
  LET idx == [ i \in 1 .. Len(tokens) |-> i ]
      balance(i) == decodeFunctionResult(results[i].returnData)
      token(i) == TokenInfo(tokens[i])
      pushed(i) ==
        /\ i <= Len(results)
        /\ results[i].success
        /\ balance(i).error = ""
        /\ formatTokenBalance(balance(i).value, token(i).decimals) # << >>
      kept == SelectSeq(idx, pushed)
      balanceResults ==
        [ k \in 1 .. Len(kept) |->
            LET i == kept[k]
            IN  [ address |-> token(i).address,
                  balance |-> balance(i).value,
                  balanceFormatted |->
                    formatTokenBalance(balance(i).value, token(i).decimals)[1],
                  decimals |-> token(i).decimals,
                  usdValue |-> calculateUSDValue(balance(i).value, token(i).decimals,
                                                 token(i).priceUSD)[1],
                  priceUSD |-> token(i).priceUSD ] ]
  IN  << balanceResults >>

executeMulticallWithRPC_throwsOnDecode(tokens, results) ==
  LET idx == [ i \in 1 .. Len(tokens) |-> i ]
      balance(i) == decodeFunctionResult(results[i].returnData)
      token(i) == TokenInfo(tokens[i])
      pushed(i) ==
        /\ i <= Len(results)
        /\ results[i].success
        /\ balance(i).error = ""
        /\ formatTokenBalance(balance(i).value, token(i).decimals) # << >>
      kept == SelectSeq(idx, pushed)
      balanceResults ==
        [ k \in 1 .. Len(kept) |->
            LET i == kept[k]
            IN  [ address |-> token(i).address,
                  balance |-> balance(i).value,
                  balanceFormatted |->
                    formatTokenBalance(balance(i).value, token(i).decimals)[1],
                  decimals |-> token(i).decimals,
                  usdValue |-> calculateUSDValue(balance(i).value, token(i).decimals,
                                                 token(i).priceUSD)[1],
                  priceUSD |-> token(i).priceUSD ] ]
  IN  IF \E i \in DOMAIN results : results[i].success /\ balance(i).error # ""
        THEN << >>
        ELSE << SelectSeq(balanceResults, LAMBDA r : r.balance > 0) >>

\* createBalanceOfCall: the sub-call that reads balanceOf(wallet) on a token
createBalanceOfCall(tokenAddress) ==
  [ target |-> tokenAddress, allowFailure |-> TRUE, callData |-> "balanceOf" ]

\* tokens.map(token => createBalanceOfCall(token.address, walletAddress))
balanceOfCalls(tokens) ==
  [ i \in DOMAIN tokens |-> createBalanceOfCall(TokenInfo(tokens[i]).address) ]

executeMulticallWithRPC_unshifts(tokens, results) ==
  LET idx == [ i \in 1 .. Len(tokens) |-> Len(tokens) + 1 - i ]
      balance(i) == decodeFunctionResult(results[i].returnData)
      token(i) == TokenInfo(tokens[i])
      pushed(i) ==
        /\ i <= Len(results)
        /\ results[i].success
        /\ balance(i).error = ""
        /\ formatTokenBalance(balance(i).value, token(i).decimals) # << >>
        /\ calculateUSDValue(balance(i).value, token(i).decimals,
                             token(i).priceUSD) # << >>
      kept == SelectSeq(idx, pushed)
      balanceResults ==
        [ k \in 1 .. Len(kept) |->
            LET i == kept[k]
            IN  [ address |-> token(i).address,
                  balance |-> balance(i).value,
                  balanceFormatted |->
                    formatTokenBalance(balance(i).value, token(i).decimals)[1],
                  decimals |-> token(i).decimals,
                  usdValue |-> calculateUSDValue(balance(i).value, token(i).decimals,
                                                 token(i).priceUSD)[1],
                  priceUSD |-> token(i).priceUSD ] ]
  IN  << SelectSeq(balanceResults, LAMBDA r : r.balance > 0) >>

\* executeMulticallWithRPC once the aggregate call has answered with
\* results: a record is pushed for token i when there is a result for it, the
\* result reports success, and decoding, formatting and pricing do not throw
\* (a throw is caught per token); records with balance 0 are filtered out.
\* The value is an option: this part of the method has no throw that escapes.
executeMulticallWithRPC(tokens, results) ==
  LET idx == [ i \in 1 .. Len(tokens) |-> i ]
      balance(i) == decodeFunctionResult(results[i].returnData)
      token(i) == TokenInfo(tokens[i])
      pushed(i) ==
        /\ i <= Len(results)
        /\ results[i].success
        /\ balance(i).error = ""
        /\ formatTokenBalance(balance(i).value, token(i).decimals) # << >>
        /\ calculateUSDValue(balance(i).value, token(i).decimals,
                             token(i).priceUSD) # << >>
      kept == SelectSeq(idx, pushed)
      balanceResults ==
        [ k \in 1 .. Len(kept) |->
            LET i == kept[k]
            IN  [ address |-> token(i).address,
                  balance |-> balance(i).value,
                  balanceFormatted |->
                    formatTokenBalance(balance(i).value, token(i).decimals)[1],
                  decimals |-> token(i).decimals,
                  usdValue |-> calculateUSDValue(balance(i).value, token(i).decimals,
                                                 token(i).priceUSD)[1],
                  priceUSD |-> token(i).priceUSD ] ]
  IN  << SelectSeq(balanceResults, LAMBDA r : r.balance > 0) >>

createBatches_dropsRemainder(tokens, size) ==
  [ b \in 1 .. ( Len(tokens) \div size ) |->
      SubSeq(tokens, (b - 1) * size + 1, b * size) ]

\* createBatches: slices of size tokens from positions 0, size, 2 * size, ...
\* while the position is inside the list; slice stops at the end of the list.
RECURSIVE createBatchesFrom(_, _, _)
createBatchesFrom(tokens, size, i) ==
  IF i < Len(tokens)
    THEN << SubSeq(tokens, i + 1, IF i + size < Len(tokens) THEN i + size ELSE Len(tokens)) >>
         \o createBatchesFrom(tokens, size, i + size)
    ELSE << >>

createBatches(tokens, size) == createBatchesFrom(tokens, size, 0)

batchSize_lowOnly(tokens) ==
  IF Len(tokens) < 300 THEN 100 ELSE 150

batchSize_inclusive(tokens) ==
  IF Len(tokens) >= 1000 THEN 200
  ELSE IF Len(tokens) <= 300 THEN 100
  ELSE 150

\* the batch size checkTokenBalancesBatched chooses from the length of the list
batchSize(tokens) ==
  IF Len(tokens) > 1000 THEN 200
  ELSE IF Len(tokens) < 300 THEN 100
  ELSE 150

(* ----------------------------- aggregator ------------------------------ *)

MAX_CONCURRENT_BATCHES == 6

\* number of aggregate calls that fail or time out in one behaviour
MaxFailures == 3

maxAttempts == 3

\* Lengths of the long token lists: around the two thresholds of the batch
\* size, and the shortest list that needs a second group of batches.
\* Grouping depends on the length of the list alone and rotation on the
\* endpoint list alone, so the short lists are run on every kind of network
\* (two endpoints, more than three, not in the registry) and each long list
\* on one: those of RotatedTokenCounts on World Chain, those of
\* SkippedTokenCounts on the chain id that is not in the registry.
RotatedTokenCounts == { 299, 300, 901 }

SkippedTokenCounts == { 1000, 1001 }

LongTokenCounts == RotatedTokenCounts \cup SkippedTokenCounts

TokenCounts == ( 0 .. MaxTokens ) \cup LongTokenCounts

\* the arguments handed to checkTokenBalances: a chain id and TokenList(n)
AggregatorInput(chainId, n) ==
  \/ n <= MaxTokens
  \/ n \in RotatedTokenCounts /\ chainId = networkConfigs[1].chainId
  \/ n \in SkippedTokenCounts /\ chainId \in UnknownChainIds

\* Answers of the aggregate call for a batch: every combination of sub-call
\* results for a short batch; for a long one the answer whose first five
\* sub-calls are a held balance, a revert, empty data, truncated data and
\* balance 0, and whose other sub-calls failed with no data.
AggregateResponses(batch) ==
  IF Len(batch) <= MaxTokens
    THEN [ 1 .. Len(batch) -> SubCallResults ]
    ELSE { [ i \in 1 .. Len(batch) |->
               CASE i = 1 -> [ success |-> TRUE,  returnData |-> Uint256(HeldBalance) ]
                 [] i = 2 -> [ success |-> FALSE, returnData |-> RevertData ]
                 [] i = 3 -> [ success |-> TRUE,  returnData |-> EmptyData ]
                 [] i = 4 -> [ success |-> TRUE,  returnData |-> ShortData ]
                 [] i = 5 -> [ success |-> TRUE,  returnData |-> Uint256(0) ]
                 [] OTHER -> [ success |-> FALSE, returnData |-> EmptyData ] ] }

RECURSIVE Flatten_lastFirst(_)
Flatten_lastFirst(ss) ==
  IF ss = << >> THEN << >> ELSE Flatten_lastFirst(Tail(ss)) \o Head(ss)

\* results.push(...batchResult) over all batch results
RECURSIVE Flatten(_)
Flatten(ss) == IF ss = << >> THEN << >> ELSE Head(ss) \o Flatten(Tail(ss))

\* positions (from 1) of the batches of the group that starts at index i
Group(i, batches) ==
  { b \in DOMAIN batches : i < b /\ b <= i + MAX_CONCURRENT_BATCHES }

Settled(t) == t.pc \in { "returned", "abandoned" }

\* attempts of task t that have failed
Failed(t) == IF t.pc \in { "delay", "abandoned" } THEN Len(t.rpcs) ELSE Len(t.rpcs) - 1

RECURSIVE Sum(_)
Sum(ns) == IF ns = << >> THEN 0 ELSE Head(ns) + Sum(Tail(ns))

Failures == Sum([ b \in DOMAIN batchTasks |->
                    IF batchTasks[b].pc = "pending" THEN 0 ELSE Failed(batchTasks[b]) ])

checkSingleBatchWithRPCRotation_fixedEndpoint(t, attempt, rpcUrls) ==
  IF attempt > maxAttempts \/ Len(rpcUrls) = 0
    THEN [ t EXCEPT !.pc = "abandoned", !.result = << >> ]
    ELSE [ t EXCEPT !.pc = "sent", !.attempt = attempt,
                    !.rpcs = Append(t.rpcs, rpcUrls[1]) ]

checkSingleBatchWithRPCRotation_skipsUnhealthy(t, attempt, rpcUrls) ==
  IF attempt > maxAttempts \/ Len(rpcUrls) = 0
    THEN [ t EXCEPT !.pc = "abandoned", !.result = << >> ]
    ELSE LET rpcIndex == ((attempt - 1) % Len(rpcUrls)) + 1
             key == cacheKey(rpcUrls[rpcIndex])
             unhealthy == key \in DOMAIN healthCache /\ ~ healthCache[key].isHealthy
             used == IF unhealthy THEN (rpcIndex % Len(rpcUrls)) + 1 ELSE rpcIndex
         IN  [ t EXCEPT !.pc = "sent", !.attempt = attempt,
                        !.rpcs = Append(t.rpcs, rpcUrls[used]) ]

\* checkSingleBatchWithRPCRotation from the head of its loop with the given
\* attempt number up to the next suspension.  With an empty endpoint list the
\* index is NaN, currentRpc is undefined and every attempt is skipped; after
\* the last attempt the method throws, and the caller's catch makes the
\* batch's result the empty list.
RECURSIVE checkSingleBatchWithRPCRotation(_, _, _)
checkSingleBatchWithRPCRotation(t, attempt, rpcUrls) ==
  IF attempt > maxAttempts
    THEN [ t EXCEPT !.pc = "abandoned", !.result = << >> ]
  ELSE IF Len(rpcUrls) = 0
    THEN checkSingleBatchWithRPCRotation(t, attempt + 1, rpcUrls)
  ELSE [ t EXCEPT !.pc = "sent", !.attempt = attempt,
                  !.rpcs = Append(t.rpcs, rpcUrls[((attempt - 1) % Len(rpcUrls)) + 1]) ]

launchGroup_all(tasks, i, batches, rpcUrls) ==
  [ b \in DOMAIN tasks |->
      IF b > i THEN checkSingleBatchWithRPCRotation(tasks[b], 1, rpcUrls)
      ELSE tasks[b] ]

\* batchGroup.map(async ...): the task of every batch of the group starts
launchGroup(tasks, i, batches, rpcUrls) ==
  [ b \in DOMAIN tasks |->
      IF b \in Group(i, batches)
        THEN checkSingleBatchWithRPCRotation(tasks[b], 1, rpcUrls)
        ELSE tasks[b] ]

\* checkTokenBalances, up to its first suspension
checkTokenBalances(chainId, tokens) ==
  /\ batched.pc = "idle"
  /\ IF Len(tokens) = 0
       THEN /\ batched' = [ batched EXCEPT !.pc = "returned", !.chainId = chainId,
                                           !.ret = << << >> >> ]
            /\ batchTasks' = batchTasks
       ELSE LET size == batchSize(tokens)
                batches == createBatches(tokens, size)
                config == getNetworkConfig(chainId)
                rpcUrls == IF config = << >> THEN << >> ELSE config[1].rpcUrls
            IN  /\ batched' = [ batched EXCEPT !.pc = "group", !.chainId = chainId,
                                  !.tokens = tokens, !.batchSize = size,
                                  !.batches = batches, !.rpcUrls = rpcUrls ]
                /\ batchTasks' = launchGroup([ b \in DOMAIN batches |-> Pending ],
                                             0, batches, rpcUrls)
  /\ UNCHANGED << clientCache, healthCache, now, calls, network, evaluated, restVars >>

\* the aggregate call of batch b answers with results
attemptReturns(b, results) ==
  /\ batched.pc = "group"
  /\ b \in DOMAIN batchTasks
  /\ batchTasks[b].pc = "sent"
  /\ LET records == executeMulticallWithRPC(batched.batches[b], results)
         t == batchTasks[b]
     IN  batchTasks' = [ batchTasks EXCEPT ![b] =
           IF records # << >>
             THEN [ t EXCEPT !.pc = "returned", !.result = records[1] ]
           ELSE IF t.attempt < maxAttempts
             THEN [ t EXCEPT !.pc = "delay" ]
           ELSE [ t EXCEPT !.pc = "abandoned", !.result = << >> ] ]
  /\ UNCHANGED << clientCache, healthCache, now, calls, batched, network, evaluated, restVars >>

attemptFails_abortsCall(b) ==
  /\ batched.pc = "group"
  /\ Failures < MaxFailures
  /\ b \in DOMAIN batchTasks
  /\ batchTasks[b].pc = "sent"
  /\ IF batchTasks[b].attempt < maxAttempts
       THEN /\ batchTasks' = [ batchTasks EXCEPT ![b].pc = "delay" ]
            /\ batched' = batched
       ELSE /\ batchTasks' = [ batchTasks EXCEPT ![b].pc = "abandoned",
                                                 ![b].result = << >> ]
            /\ batched' = [ batched EXCEPT !.pc = "thrown" ]
  /\ UNCHANGED << clientCache, healthCache, now, calls, network, evaluated, restVars >>

attemptFails_noDelay(b) ==
  /\ batched.pc = "group"
  /\ Failures < MaxFailures
  /\ b \in DOMAIN batchTasks
  /\ batchTasks[b].pc = "sent"
  /\ batchTasks' = [ batchTasks EXCEPT ![b] =
       checkSingleBatchWithRPCRotation(batchTasks[b], batchTasks[b].attempt + 1,
                                       batched.rpcUrls) ]
  /\ UNCHANGED << clientCache, healthCache, now, calls, batched, network, evaluated, restVars >>

\* the aggregate call of batch b fails or exceeds its timeout: the catch of
\* the rotation loop waits before the next attempt, and after the last
\* attempt the loop ends and the method throws
attemptFails(b) ==
  /\ batched.pc = "group"
  /\ Failures < MaxFailures
  /\ b \in DOMAIN batchTasks
  /\ batchTasks[b].pc = "sent"
  /\ batchTasks' = [ batchTasks EXCEPT ![b] =
       IF batchTasks[b].attempt < maxAttempts
         THEN [ batchTasks[b] EXCEPT !.pc = "delay" ]
         ELSE [ batchTasks[b] EXCEPT !.pc = "abandoned", !.result = << >> ] ]
  /\ UNCHANGED << clientCache, healthCache, now, calls, batched, network, evaluated, restVars >>

\* the delay after a failed attempt of batch b ends
delayEnds(b) ==
  /\ batched.pc = "group"
  /\ b \in DOMAIN batchTasks
  /\ batchTasks[b].pc = "delay"
  /\ batchTasks' = [ batchTasks EXCEPT ![b] =
       checkSingleBatchWithRPCRotation(batchTasks[b], batchTasks[b].attempt + 1,
                                       batched.rpcUrls) ]
  /\ UNCHANGED << clientCache, healthCache, now, calls, batched, network, evaluated, restVars >>

\* Promise.all of the group resolves: the results of the group are pushed in
\* batch order and the loop goes on with the next group, or the method
\* returns the concatenation of all batch results
groupCompletes ==
  /\ batched.pc = "group"
  /\ \A b \in Group(batched.i, batched.batches) : Settled(batchTasks[b])
  /\ LET last == IF batched.i + MAX_CONCURRENT_BATCHES < Len(batched.batches)
                   THEN batched.i + MAX_CONCURRENT_BATCHES
                   ELSE Len(batched.batches)
         batchResults ==
           batched.batchResults
             \o [ k \in 1 .. last - batched.i |-> batchTasks[batched.i + k].result ]
         i == batched.i + MAX_CONCURRENT_BATCHES
     IN  IF i < Len(batched.batches)
           THEN /\ batched' = [ batched EXCEPT !.i = i, !.batchResults = batchResults ]
                /\ batchTasks' = launchGroup(batchTasks, i, batched.batches,
                                             batched.rpcUrls)
           ELSE /\ batched' = [ batched EXCEPT !.pc = "returned", !.i = i,
                                  !.batchResults = batchResults,
                                  !.ret = << Flatten(batchResults) >> ]
                /\ batchTasks' = batchTasks
  /\ UNCHANGED << clientCache, healthCache, now, calls, network, evaluated, restVars >>

\* checkSingleNetwork after checkTokenBalances has returned: the records
\* are filtered once more and become the tokenBalances of the network result
checkSingleNetwork ==
  /\ batched.pc = "returned"
  /\ network = NoNetwork
  /\ getNetworkConfig(batched.chainId) # << >>
  /\ network' = << [ chainId |-> batched.chainId,
                     tokenBalances |->
                       SelectSeq(batched.ret[1], LAMBDA token : token.balance > 0) ] >>
  /\ UNCHANGED << clientCache, healthCache, now, calls, batched, batchTasks, evaluated, restVars >>

AggregatorNext ==
  \/ \E chainId \in ChainIdInputs, n \in TokenCounts :
       AggregatorInput(chainId, n) /\ checkTokenBalances(chainId, TokenList(n))
  \/ \E b \in DOMAIN batchTasks :
       \E results \in AggregateResponses(batched.batches[b]) : attemptReturns(b, results)
  \/ \E b \in DOMAIN batchTasks : attemptFails(b)
  \/ \E b \in DOMAIN batchTasks : delayEnds(b)
  \/ groupCompletes
  \/ checkSingleNetwork

AggregatorSpec == Init /\ [][AggregatorNext]_vars

(* ------------------------------ rotation ------------------------------- *)

\* token lists of the calls in which timeouts are followed: one batch each
RotationInput(chainId, n) == 1 <= n /\ n <= MaxTokens

attemptTimesOut_keepsWaiting(b) ==
  /\ batched.pc = "group"
  /\ Failures < MaxFailures
  /\ b \in DOMAIN batchTasks
  /\ batchTasks[b].pc = "sent"
  /\ << b, batchTasks[b].attempt >> \notin orphans
  /\ batchTasks' = batchTasks
  /\ orphans' = orphans \cup { << b, batchTasks[b].attempt >> }
  /\ UNCHANGED << clientCache, healthCache, now, calls, batched, network, evaluated,
                  memoryCache, wallet, availability, fileCache, lookup, multi >>

\* The timer of executeMulticall fires before the aggregate call of batch b
\* has answered: Promise.race rejects, executeMulticall wraps the rejection
\* in its own Error and the catch of the rotation loop takes it like any
\* other.  Nothing cancels the request, which stays in flight.
attemptTimesOut(b) ==
  /\ batched.pc = "group"
  /\ Failures < MaxFailures
  /\ b \in DOMAIN batchTasks
  /\ batchTasks[b].pc = "sent"
  /\ batchTasks' = [ batchTasks EXCEPT ![b] =
       IF batchTasks[b].attempt < maxAttempts
         THEN [ batchTasks[b] EXCEPT !.pc = "delay" ]
         ELSE [ batchTasks[b] EXCEPT !.pc = "abandoned", !.result = << >> ] ]
  /\ orphans' = orphans \cup { << b, batchTasks[b].attempt >> }
  /\ UNCHANGED << clientCache, healthCache, now, calls, batched, network, evaluated,
                  memoryCache, wallet, availability, fileCache, lookup, multi >>

lateAnswer_settlesTask(o) ==
  /\ o \in orphans
  /\ orphans' = orphans \ { o }
  /\ batchTasks' = [ b \in DOMAIN batchTasks |->
                      IF b = o[1] /\ batchTasks[b].pc \in { "sent", "delay" }
                        THEN [ batchTasks[b] EXCEPT !.pc = "returned" ]
                        ELSE batchTasks[b] ]
  /\ UNCHANGED << clientCache, healthCache, now, calls, batched, network, evaluated,
                  memoryCache, wallet, availability, fileCache, lookup, multi >>

\* a request that had timed out is answered, or fails, at last: the promise
\* that lost the race settles and nobody reads it
lateAnswer(o) ==
  /\ o \in orphans
  /\ orphans' = orphans \ { o }
  /\ UNCHANGED << clientCache, healthCache, now, calls, aggVars, evaluated,
                  memoryCache, wallet, availability, fileCache, lookup, multi >>

RotationNext ==
  \/ \E chainId \in ChainIdInputs, n \in TokenCounts :
       RotationInput(chainId, n) /\ checkTokenBalances(chainId, TokenList(n))
  \/ \E b \in DOMAIN batchTasks :
       \E results \in AggregateResponses(batched.batches[b]) : attemptReturns(b, results)
  \/ \E b \in DOMAIN batchTasks : attemptFails(b)
  \/ \E b \in DOMAIN batchTasks : attemptTimesOut(b)
  \/ \E o \in orphans : lateAnswer(o)
  \/ \E b \in DOMAIN batchTasks : delayEnds(b)
  \/ groupCompletes

RotationSpec == Init /\ [][RotationNext]_vars

\* the bigint n * 10^e for a machine integer n >= 0
Scaled(n, e) ==
  BigTrim([ i \in DOMAIN toString(n) |-> DigitValue(toString(n)[i]) ] \o Zeros(e))

(* --------------------------- balance checker --------------------------- *)

\* A number that may be NaN is an option, as parseFloat gives it.
Zero == << Number(0, 1) >>

\* a + b and a * b on numbers that may be NaN
Plus(a, b) ==
  IF a = NaN \/ b = NaN THEN NaN
  ELSE LET den == IF a[1].den > b[1].den THEN a[1].den ELSE b[1].den
       IN  << Number(a[1].num * (den \div a[1].den) + b[1].num * (den \div b[1].den),
                     den) >>

Product(a, b) == IF a = NaN \/ b = NaN THEN NaN ELSE << Times(a[1], b[1]) >>

\* records.reduce((sum, record) => sum + record.usdValue, 0)
RECURSIVE SumUsdValue(_)
SumUsdValue(records) ==
  IF records = << >> THEN Zero
  ELSE Plus(SumUsdValue(SubSeq(records, 1, Len(records) - 1)), << records[Len(records)].usdValue >>)

\* networks.reduce((sum, network) => sum + network.totalUsdValue, 0)
RECURSIVE SumTotalUsdValue(_)
SumTotalUsdValue(networks) ==
  IF networks = << >> THEN Zero
  ELSE Plus(SumTotalUsdValue(SubSeq(networks, 1, Len(networks) - 1)), networks[Len(networks)].totalUsdValue)

\* nativeCurrency of the entries of the registry excerpt (lines 298, 311
\* and 390)
nativeCurrency(config) ==
  CASE config.name = "World Chain" -> [ symbol |-> "ETH", decimals |-> 18 ]
    [] config.name = "HyperEVM" -> [ symbol |-> "HYPE", decimals |-> 18 ]
    [] config.name = "Hyperliquid" -> [ symbol |-> "USDC", decimals |-> 6 ]

\* Chain id lists handed to checkAllNetworks: one network, a network and a
\* chain id that is not in the registry in both orders, two networks, and
\* the chain id that two registry entries carry, twice.
ChainIdLists ==
  { << 480 >>, << 480, 31337 >>, << 31337, 480 >>, << 480, 999 >>, << 999, 999 >> }

\* Token lists the catalog answers a request for a chain with: no tokens,
\* or the tokens it lists for the chain.  The first token of a list is the
\* one the native price is read from: it has a price on chain 480, and on
\* chain 999 either a price or a price that is no number.
CatalogAnswers(chainId) ==
  IF chainId = 999 THEN { << >>, << 2 >>, << 6 >> }
  ELSE { << >>, TokenList(MaxTokens) }

\* native balances the balance call answers with: none, and 1.5 units
NativeBalances == { Scaled(0, 0), Scaled(15, 17) }

\* Record lists checkTokenBalances returns for a token list of one batch:
\* what executeMulticallWithRPC makes of an aggregate answer in which the
\* sub-calls of the tokens in `held` return a balance and the others fail.
\* No token held is also what an abandoned batch gives.
TokenCheckOutcomes(tokens) ==
  { executeMulticallWithRPC(tokens,
      [ i \in 1 .. Len(tokens) |->
          IF i \in held THEN [ success |-> TRUE, returnData |-> Uint256(HeldBalance) ]
          ELSE [ success |-> FALSE, returnData |-> RevertData ] ])[1] :
      held \in SUBSET (1 .. Len(tokens)) }

\* `tokens_${chainId}`
tokensKey(chainId) == << "tokens_", chainId >>

\* One checkSingleNetwork call of checkAllNetworks: the await it is suspended
\* at (pc), the timer the program armed for the remote call it waits for (in
\* ms, 0 for none), the token list and how it was obtained, the native
\* balance once fetched, whether checkTokenBalances has been called, and the
\* network's entry once checkSingleNetwork has returned or thrown.
NewQuery(chainId) ==
  [ pc |-> "start", chainId |-> chainId, tokens |-> << >>, catalog |-> "none",
    timer |-> 0, fetched |-> << >>, tokenCheck |-> "unstarted", entry |-> << >> ]

\* the catch of checkAllNetworks: the entry of a network whose check failed
placeholder(chainId) ==
  LET networkConfig == getNetworkConfig(chainId)
  IN  [ chainId |-> chainId,
        networkName |-> IF networkConfig = << >> THEN << "Chain", chainId >>
                        ELSE << networkConfig[1].name >>,
        nativeBalance |-> [ balance |-> << 0 >>, balanceFormatted |-> << "0" >>,
                            usdValue |-> Zero ],
        tokenBalances |-> << >>,
        totalUsdValue |-> Zero ]

\* checkSingleNetwork throws and the catch of checkAllNetworks makes the
\* placeholder the entry of the network
thrown(q) ==
  [ q EXCEPT !.pc = "thrown", !.timer = 0, !.entry = << placeholder(q.chainId) >> ]

networkResult_tokensOnly(chainId, nativeBalance, tokenBalances) ==
  LET finalTokenBalances == SelectSeq(tokenBalances, LAMBDA token : token.balance > 0)
  IN  [ chainId |-> chainId,
        networkName |-> << getNetworkConfig(chainId)[1].name >>,
        nativeBalance |-> nativeBalance,
        tokenBalances |-> finalTokenBalances,
        totalUsdValue |-> SumUsdValue(finalTokenBalances) ]

\* checkSingleNetwork from the filter on: the result of a network
networkResult(chainId, nativeBalance, tokenBalances) ==
  LET finalTokenBalances == SelectSeq(tokenBalances, LAMBDA token : token.balance > 0)
      tokenUsdValue == SumUsdValue(finalTokenBalances)
  IN  [ chainId |-> chainId,
        networkName |-> << getNetworkConfig(chainId)[1].name >>,
        nativeBalance |-> nativeBalance,
        tokenBalances |-> finalTokenBalances,
        totalUsdValue |-> Plus(nativeBalance.usdValue, tokenUsdValue) ]

\* checkSingleNetwork returns
returned(q, nativeBalance, tokenBalances) ==
  [ q EXCEPT !.pc = "returned", !.timer = 0, !.tokenCheck = "done",
             !.entry = << networkResult(q.chainId, nativeBalance, tokenBalances) >> ]

\* getNativeTokenPrice once getTokensForChain has returned tokens: the price
\* of the first token of the list, 0 for an empty list
getNativeTokenPrice(tokens) ==
  IF Len(tokens) = 0 THEN Zero ELSE parseFloat(TokenInfo(tokens[1]).priceUSD)

\* calculateNativeUSDValue with the price it was given: NaN <= 0 is false
calculateNativeUSDValue(balance, decimals, nativePrice) ==
  IF nativePrice # NaN /\ nativePrice[1].num <= 0 THEN Zero
  ELSE Product(parseFloat(formatTokenBalanceBigInt(balance, decimals,
                                                   << 1 >> \o Zeros(decimals))),
               nativePrice)

\* checkNativeBalance returns and checkSingleNetwork goes on to
\* checkTokenBalances, which returns at once for an empty token list
afterNativeBalance(q, nativePrice) ==
  LET currency == nativeCurrency(getNetworkConfig(q.chainId)[1])
      nativeBalance ==
        [ balance |-> q.fetched[1],
          balanceFormatted |->
            formatTokenBalanceBigInt(q.fetched[1], currency.decimals,
                                     << 1 >> \o Zeros(currency.decimals)),
          usdValue |-> calculateNativeUSDValue(q.fetched[1], currency.decimals,
                                               nativePrice) ]
  IN  IF Len(q.tokens) = 0 THEN returned(q, nativeBalance, << >>)
      ELSE [ q EXCEPT !.pc = "aggregator", !.timer = 10000,
                      !.tokenCheck = "running", !.entry = << nativeBalance >> ]

afterTokens_startsTokenCheck(q, tokens, catalog) ==
  [ q EXCEPT !.pc = "client", !.tokens = tokens, !.catalog = catalog, !.timer = 8000,
             !.tokenCheck = "running" ]

\* getTokensForChain has returned tokens to checkSingleNetwork, which calls
\* checkNativeBalance: the registry lookup succeeds again and getClient is
\* awaited; every request getClient sends is on a transport with a timeout
\* (3 s for a health probe, 8 s for the smoke test)
afterTokens(q, tokens, catalog) ==
  [ q EXCEPT !.pc = "client", !.tokens = tokens, !.catalog = catalog, !.timer = 8000 ]

\* checkSingleNetwork up to its first suspension
startQuery(chainId, cache) ==
  IF getNetworkConfig(chainId) = << >> THEN thrown(NewQuery(chainId))
  ELSE IF tokensKey(chainId) \in DOMAIN cache
    THEN afterTokens(NewQuery(chainId), cache[tokensKey(chainId)].data, "cached")
  ELSE [ NewQuery(chainId) EXCEPT !.pc = "tokens" ]

\* the memory cache and the file cache of TokenListManager
caches == << memoryCache, fileCache >>

\* CachedData: a list, the instant it was stored and its time to live
CachedData(tokens, time) ==
  [ data |-> tokens, timestamp |-> time, ttl |-> CACHE_DURATION ]

\* isCacheValid at the instant time
isCacheValid(cached, time) == time - cached.timestamp < cached.ttl

\* getTokensForChain caches a list that is not empty: the same entry goes
\* to the memory cache and, by saveToFileCache, to the file of the chain
cacheTokens(cache, chainId, tokens, time) ==
  IF Len(tokens) = 0 THEN cache
  ELSE MapSet(cache, tokensKey(chainId), CachedData(tokens, time))

\* frame of the actions of the balance checker
checkerFrame ==
  UNCHANGED << clientCache, healthCache, now, calls, aggVars, evaluated, orphans,
               availability, lookup, multi >>

\* checkAllNetworks: chainIds.map starts one checkSingleNetwork per chain id
checkAllNetworks(chainIds) ==
  /\ wallet.pc \in { "idle", "returned" }
  /\ wallet' = [ pc |-> "running", chainIds |-> chainIds,
                 queries |-> [ i \in DOMAIN chainIds |->
                                 startQuery(chainIds[i], memoryCache) ],
                 result |-> << >> ]
  /\ UNCHANGED caches
  /\ checkerFrame

Running(q, pc) ==
  /\ wallet.pc = "running"
  /\ q \in DOMAIN wallet.queries
  /\ wallet.queries[q].pc = pc

\* fetchFromAPI answers: the list of the chain is cached unless it is empty
catalogAnswers(q, tokens) ==
  /\ Running(q, "tokens")
  /\ wallet' = [ wallet EXCEPT !.queries[q] = afterTokens(@, tokens, "fetched") ]
  /\ memoryCache' = cacheTokens(memoryCache, wallet.queries[q].chainId, tokens, now)
  /\ fileCache' = cacheTokens(fileCache, wallet.queries[q].chainId, tokens, now)
  /\ checkerFrame

\* fetchFromAPI throws (no answer, or an answer that is not ok):
\* getTokensForChain and checkSingleNetwork have no catch
catalogFails(q) ==
  /\ Running(q, "tokens")
  /\ wallet' = [ wallet EXCEPT !.queries[q] = thrown([ @ EXCEPT !.catalog = "failed" ]) ]
  /\ UNCHANGED caches
  /\ checkerFrame

\* getClient returns a client: getBalance is sent and raced against the
\* 8 s timer of checkNativeBalance
clientReturns(q) ==
  /\ Running(q, "client")
  /\ wallet' = [ wallet EXCEPT !.queries[q].pc = "balance", !.queries[q].timer = 8000 ]
  /\ UNCHANGED caches
  /\ checkerFrame

\* getClient throws (no healthy endpoint, or the smoke test failed or timed
\* out): the await is outside the try of checkNativeBalance
clientFails(q) ==
  /\ Running(q, "client")
  /\ wallet' = [ wallet EXCEPT !.queries[q] = thrown(@) ]
  /\ UNCHANGED caches
  /\ checkerFrame

\* getBalance answers: the balance is formatted and getNativeTokenPrice asks
\* getTokensForChain for the list again, which the cache serves or
\* fetchFromAPI fetches
balanceReturns(q, balance) ==
  /\ Running(q, "balance")
  /\ LET got == [ wallet.queries[q] EXCEPT !.fetched = << balance >> ]
         key == tokensKey(got.chainId)
     IN  wallet' = [ wallet EXCEPT !.queries[q] =
           IF key \in DOMAIN memoryCache
             THEN afterNativeBalance(got, getNativeTokenPrice(memoryCache[key].data))
             ELSE [ got EXCEPT !.pc = "price", !.timer = 0 ] ]
  /\ UNCHANGED caches
  /\ checkerFrame

\* getBalance fails: checkNativeBalance rethrows
balanceFails(q) ==
  /\ Running(q, "balance")
  /\ wallet' = [ wallet EXCEPT !.queries[q] = thrown(@) ]
  /\ UNCHANGED caches
  /\ checkerFrame

\* the timer of checkNativeBalance fires first: the race rejects and
\* checkNativeBalance rethrows
balanceTimesOut(q) ==
  /\ Running(q, "balance")
  /\ wallet.queries[q].timer > 0
  /\ wallet' = [ wallet EXCEPT !.queries[q] = thrown(@) ]
  /\ UNCHANGED caches
  /\ checkerFrame

\* fetchFromAPI answers getNativeTokenPrice
priceAnswers(q, tokens) ==
  /\ Running(q, "price")
  /\ wallet' = [ wallet EXCEPT !.queries[q] =
                   afterNativeBalance(@, getNativeTokenPrice(tokens)) ]
  /\ memoryCache' = cacheTokens(memoryCache, wallet.queries[q].chainId, tokens, now)
  /\ fileCache' = cacheTokens(fileCache, wallet.queries[q].chainId, tokens, now)
  /\ checkerFrame

\* fetchFromAPI throws: the catch of getNativeTokenPrice returns 0
priceFails(q) ==
  /\ Running(q, "price")
  /\ wallet' = [ wallet EXCEPT !.queries[q] = afterNativeBalance(@, Zero) ]
  /\ UNCHANGED caches
  /\ checkerFrame

\* checkTokenBalances returns records
aggregatorReturns(q, records) ==
  /\ Running(q, "aggregator")
  /\ wallet' = [ wallet EXCEPT !.queries[q] = returned(@, @.entry[1], records) ]
  /\ UNCHANGED caches
  /\ checkerFrame

\* an entry outlives CACHE_DURATION, in the memory cache and in the file
\* written with it: isCacheValid rejects the one and loadFromFileCache
\* deletes the other
cacheExpires(key) ==
  /\ key \in DOMAIN memoryCache
  /\ memoryCache' = [ k \in DOMAIN memoryCache \ { key } |-> memoryCache[k] ]
  /\ fileCache' = [ k \in DOMAIN fileCache \ { key } |-> fileCache[k] ]
  /\ UNCHANGED wallet
  /\ checkerFrame

allNetworksResult_skipsFailed(queries) ==
  LET done == SelectSeq(queries, LAMBDA query : query.pc = "returned")
      networkResults == [ i \in DOMAIN done |-> done[i].entry[1] ]
  IN  [ networks |-> networkResults,
        totalUsdValue |-> SumTotalUsdValue(networkResults) ]

\* the result of checkAllNetworks from the settled network promises
allNetworksResult(queries) ==
  LET networkResults == [ i \in DOMAIN queries |-> queries[i].entry[1] ]
  IN  [ networks |-> networkResults,
        totalUsdValue |-> SumTotalUsdValue(networkResults) ]

\* Promise.all of the network promises resolves and checkAllNetworks returns
allNetworksReturn ==
  /\ wallet.pc = "running"
  /\ \A q \in DOMAIN wallet.queries : wallet.queries[q].pc \in { "returned", "thrown" }
  /\ wallet' = [ wallet EXCEPT !.pc = "returned",
                               !.result = << allNetworksResult(wallet.queries) >> ]
  /\ UNCHANGED caches
  /\ checkerFrame

CheckerNext ==
  \/ \E chainIds \in ChainIdLists : checkAllNetworks(chainIds)
  \/ \E q \in DOMAIN wallet.queries :
       \E tokens \in CatalogAnswers(wallet.queries[q].chainId) : catalogAnswers(q, tokens)
  \/ \E q \in DOMAIN wallet.queries : catalogFails(q)
  \/ \E q \in DOMAIN wallet.queries : clientReturns(q)
  \/ \E q \in DOMAIN wallet.queries : clientFails(q)
  \/ \E q \in DOMAIN wallet.queries, balance \in NativeBalances : balanceReturns(q, balance)
  \/ \E q \in DOMAIN wallet.queries : balanceFails(q)
  \/ \E q \in DOMAIN wallet.queries : balanceTimesOut(q)
  \/ \E q \in DOMAIN wallet.queries :
       \E tokens \in CatalogAnswers(wallet.queries[q].chainId) : priceAnswers(q, tokens)
  \/ \E q \in DOMAIN wallet.queries : priceFails(q)
  \/ \E q \in DOMAIN wallet.queries :
       \E records \in TokenCheckOutcomes(wallet.queries[q].tokens) :
         aggregatorReturns(q, records)
  \/ \E key \in DOMAIN memoryCache : cacheExpires(key)
  \/ allNetworksReturn

CheckerSpec == Init /\ [][CheckerNext]_vars

(* ------------------------- availability probing ------------------------ *)

\* The RPCManager.checkAllNetworks call: the registry entry of its loop (i),
\* the endpoint its findWorkingRPC walk is at (idx), the records pushed so
\* far, and where it is suspended: "health" before a checkRPCHealth call,
\* "probing" while the probe of that call is in flight.

\* the entry findWorkingRPC walks for the registry entry at index i: the one
\* the lookup of that entry's chain id returns
walked(i) == getNetworkConfig(networkConfigs[i].chainId)[1]

\* findWorkingRPC has returned an endpoint or null: the record of the entry
\* is pushed and the loop goes to the next entry, or the call returns
pushRecord(a, workingRPC) ==
  LET config == networkConfigs[a.i]
      record == [ chainId |-> config.chainId, name |-> config.name,
                  isAvailable |-> workingRPC # << >>, workingRPC |-> workingRPC ]
  IN  IF a.i < Len(networkConfigs)
        THEN [ a EXCEPT !.pc = "health", !.i = a.i + 1, !.idx = 1,
                        !.results = Append(a.results, record) ]
        ELSE [ a EXCEPT !.pc = "returned", !.results = Append(a.results, record) ]

\* findWorkingRPC once the verdict of the endpoint at a.idx is known
afterVerdict(a, verdict) ==
  LET rpcUrls == walked(a.i).rpcUrls
  IN  IF verdict THEN pushRecord(a, << rpcUrls[a.idx] >>)
      ELSE IF a.idx < Len(rpcUrls) THEN [ a EXCEPT !.pc = "health", !.idx = a.idx + 1 ]
      ELSE pushRecord(a, << >>)

\* frame of the actions of the availability call
availabilityFrame ==
  UNCHANGED << clientCache, calls, aggVars, evaluated, orphans, memoryCache, wallet,
               fileCache, lookup, multi >>

\* checkAllNetworks of the RPCManager is called: the loop starts at the
\* first entry, whose chain id the lookup of findWorkingRPC always finds
checkAvailability ==
  /\ availability.pc = "idle"
  /\ availability' = [ NoAvailability EXCEPT !.pc = "health", !.i = 1, !.idx = 1 ]
  /\ UNCHANGED << healthCache, now >>
  /\ availabilityFrame

\* checkRPCHealth of the walk: a fresh cached verdict is returned at once,
\* otherwise the probe is sent
availabilityCheckRPCHealth ==
  /\ availability.pc = "health"
  /\ LET key == cacheKey(walked(availability.i).rpcUrls[availability.idx])
     IN  availability' =
           IF key \in DOMAIN healthCache /\ IsFresh(healthCache[key], now)
             THEN afterVerdict(availability, healthCache[key].isHealthy)
             ELSE [ availability EXCEPT !.pc = "probing" ]
  /\ UNCHANGED << healthCache, now >>
  /\ availabilityFrame

\* the probe's getBlockNumber answers (ok) or fails / times out (~ok)
availabilityProbeReturns(ok) ==
  /\ availability.pc = "probing"
  /\ healthCache' = MapSet(healthCache,
                           cacheKey(walked(availability.i).rpcUrls[availability.idx]),
                           [ isHealthy |-> ok, lastCheck |-> now ])
  /\ availability' = afterVerdict(availability, ok)
  /\ UNCHANGED now
  /\ availabilityFrame

AvailabilityNext ==
  \/ checkAvailability
  \/ availabilityCheckRPCHealth
  \/ \E ok \in BOOLEAN : availabilityProbeReturns(ok)
  \/ Tick

AvailabilitySpec == Init /\ [][AvailabilityNext]_vars

(* ----------------------------- late answers ---------------------------- *)

\* One network query in which the calls made through checkNativeBalance and
\* the rotation loop are followed past their timeouts: the query of the
\* balance checker with its checkTokenBalances call run by the aggregator,
\* where a call fails by its timer and the request behind it stays in flight.
\* The native balance request of query q is the entry << 0, q >> of orphans.

\* The timer of checkNativeBalance fires before getBalance has answered: the
\* race rejects, checkNativeBalance rethrows, and nothing cancels the
\* request, which stays in flight.
nativeTimesOut(q) ==
  /\ Running(q, "balance")
  /\ wallet.queries[q].timer > 0
  /\ wallet' = [ wallet EXCEPT !.queries[q] = thrown(@) ]
  /\ orphans' = orphans \cup { << 0, q >> }
  /\ UNCHANGED << clientCache, healthCache, now, calls, aggVars, evaluated,
                  memoryCache, availability, fileCache, lookup, multi >>

LateNext ==
  \/ wallet = NoWallet /\ checkAllNetworks(<< networkConfigs[1].chainId >>)
  \/ \E q \in DOMAIN wallet.queries :
       \E tokens \in CatalogAnswers(wallet.queries[q].chainId) : catalogAnswers(q, tokens)
  \/ \E q \in DOMAIN wallet.queries : clientReturns(q)
  \/ \E q \in DOMAIN wallet.queries, balance \in NativeBalances : balanceReturns(q, balance)
  \/ \E q \in DOMAIN wallet.queries : nativeTimesOut(q)
  \/ \E q \in DOMAIN wallet.queries :
       \E tokens \in CatalogAnswers(wallet.queries[q].chainId) : priceAnswers(q, tokens)
  \/ \E q \in DOMAIN wallet.queries :
       /\ Running(q, "aggregator")
       /\ checkTokenBalances(wallet.queries[q].chainId, wallet.queries[q].tokens)
  \/ \E b \in DOMAIN batchTasks :
       \E results \in AggregateResponses(batched.batches[b]) : attemptReturns(b, results)
  \/ \E b \in DOMAIN batchTasks : attemptTimesOut(b)
  \/ \E o \in orphans : lateAnswer(o)
  \/ \E b \in DOMAIN batchTasks : delayEnds(b)
  \/ groupCompletes
  \/ \E q \in DOMAIN wallet.queries :
       /\ batched.pc = "returned"
       /\ aggregatorReturns(q, batched.ret[1])
  \/ allNetworksReturn

LateSpec == Init /\ [][LateNext]_vars

(* ------------------------ rotation and verdicts ------------------------ *)

\* checkTokenBalances for one token on every kind of network, after
\* createClient calls have filled the health cache and the client cache in
\* every way: as in checkSingleNetwork, where checkNativeBalance awaits
\* getClient before checkTokenBalances is called, the token check starts
\* when no createClient call is suspended
RotationHealthNext ==
  \/ batched.pc = "idle" /\ createClient(networkConfigs[1].chainId)
  \/ \E i \in DOMAIN calls : nextEndpoint(i)
  \/ \E i \in DOMAIN calls, ok \in BOOLEAN : probeReturns(i, ok)
  \/ \E i \in DOMAIN calls, ok \in BOOLEAN : smokeReturns(i, ok)
  \/ /\ \A i \in DOMAIN calls : calls[i].pc = "done"
     /\ \E chainId \in ChainIdInputs : checkTokenBalances(chainId, TokenList(1))
  \/ \E b \in DOMAIN batchTasks :
       \E results \in AggregateResponses(batched.batches[b]) : attemptReturns(b, results)
  \/ \E b \in DOMAIN batchTasks : attemptFails(b)
  \/ \E b \in DOMAIN batchTasks : delayEnds(b)
  \/ groupCompletes

RotationHealthSpec == Init /\ [][RotationHealthNext]_vars

(* ------------------------- token catalog cache ------------------------- *)

\* instants at which the clock of the catalog cache is read
CatalogTimePoints == { 0, CACHE_DURATION - 1, CACHE_DURATION, CACHE_DURATION + 1 }

\* chain ids getTokensForChain is called with
LookupChainIds == { 480, 999 }

\* frame of the actions of the catalog cache
catalogFrame ==
  UNCHANGED << clientCache, healthCache, calls, aggVars, evaluated, orphans, wallet,
               availability, multi >>

\* loadFromFileCache: the data of a file that is still valid; a stale file is
\* deleted.  files is the directory after the call
loadFromFileCache(chainId, time) ==
  LET key == tokensKey(chainId)
  IN  IF key \notin DOMAIN fileCache THEN [ data |-> << >>, files |-> fileCache ]
      ELSE IF isCacheValid(fileCache[key], time)
        THEN [ data |-> << fileCache[key].data >>, files |-> fileCache ]
      ELSE [ data |-> << >>,
             files |-> [ k \in DOMAIN fileCache \ { key } |-> fileCache[k] ] ]

\* getTokensForChain returns tokens taken from a cache or from the API
lookupReturns(chainId, from, tokens, fetched) ==
  [ lookup EXCEPT !.pc = "returned", !.chainId = chainId, !.from = from,
                  !.ret = << tokens >>, !.at = now, !.fetched = fetched ]

\* getTokensForChain up to its return or to the await of fetchFromAPI: a
\* valid memory entry is returned; else a valid file is copied into the
\* memory cache with timestamp Date.now() and returned; else the API is asked
getTokensForChain(chainId) ==
  /\ lookup.pc # "fetching"
  /\ LET key == tokensKey(chainId)
         fileCached == loadFromFileCache(chainId, now)
     IN  IF key \in DOMAIN memoryCache /\ isCacheValid(memoryCache[key], now)
           THEN /\ lookup' = lookupReturns(chainId, "memory", memoryCache[key].data,
                                           lookup.fetchedAt[key])
                /\ UNCHANGED caches
         ELSE IF fileCached.data # << >>
           THEN /\ memoryCache' = MapSet(memoryCache, key,
                                         CachedData(fileCached.data[1], now))
                /\ fileCache' = fileCache
                /\ lookup' = lookupReturns(chainId, "file", fileCached.data[1],
                                           lookup.fetchedAt[key])
         ELSE /\ fileCache' = fileCached.files
              /\ memoryCache' = memoryCache
              /\ lookup' = [ lookup EXCEPT !.pc = "fetching", !.chainId = chainId,
                                           !.from = "none", !.ret = << >> ]
  /\ UNCHANGED now
  /\ catalogFrame

\* fetchFromAPI answers: an empty list is returned and not cached, any other
\* list goes to the memory cache and to the file of the chain
fetchAnswers(tokens) ==
  /\ lookup.pc = "fetching"
  /\ memoryCache' = cacheTokens(memoryCache, lookup.chainId, tokens, now)
  /\ fileCache' = cacheTokens(fileCache, lookup.chainId, tokens, now)
  /\ lookup' = [ lookupReturns(lookup.chainId, "api", tokens, now) EXCEPT
                   !.fetchedAt = IF Len(tokens) = 0 THEN @
                                 ELSE MapSet(@, tokensKey(lookup.chainId), now) ]
  /\ UNCHANGED now
  /\ catalogFrame

\* fetchFromAPI throws and getTokensForChain has no catch
fetchThrows ==
  /\ lookup.pc = "fetching"
  /\ lookup' = [ lookup EXCEPT !.pc = "thrown" ]
  /\ UNCHANGED << now, caches >>
  /\ catalogFrame

\* a TokenListManager is constructed (the program is started again): its
\* memory cache is a new Map, the cache directory is the one on the disk
newTokenListManager ==
  /\ lookup.pc # "fetching"
  /\ memoryCache # EmptyMap
  /\ memoryCache' = EmptyMap
  /\ UNCHANGED << now, fileCache, lookup, multi >>
  /\ catalogFrame

\* TokenListManager.clearCache: the memory cache is cleared and the cache files are deleted
tokenListClearCache ==
  /\ lookup.pc # "fetching"
  /\ << memoryCache, fileCache >> # << EmptyMap, EmptyMap >>
  /\ memoryCache' = EmptyMap
  /\ fileCache' = EmptyMap
  /\ UNCHANGED << now, lookup >>
  /\ catalogFrame

\* time passes
catalogTick ==
  /\ \E time \in CatalogTimePoints : time > now /\ now' = time
  /\ UNCHANGED << caches, lookup >>
  /\ catalogFrame

CatalogNext ==
  \/ \E chainId \in LookupChainIds : getTokensForChain(chainId)
  \/ \E tokens \in CatalogAnswers(lookup.chainId) : fetchAnswers(tokens)
  \/ fetchThrows
  \/ newTokenListManager
  \/ tokenListClearCache
  \/ catalogTick

CatalogSpec == Init /\ [][CatalogNext]_vars

(* --------------------------- several wallets --------------------------- *)

BATCH_SIZE == 8

\* lists of wallet addresses handed to checkMultipleWallets: none, an empty
\* string alone, one address, addresses around an empty string, and a list
\* that needs a second group and has empty strings in its first
WalletLists ==
  { << >>,
    << "" >>,
    << "0xA1" >>,
    << "0xA1", "", "0xA3" >>,
    << "0xA1", "", "0xA3", "0xA4", "", "0xA6", "0xA7", "0xA8", "0xA9" >> }

\* what checkAllNetworks resolves with for a wallet: the network results,
\* which checkMultipleWallets hands on untouched, are named by their chain
\* ids, and the total is 0, a value, or NaN
AllNetworksResults(walletAddress) ==
  { [ walletAddress |-> walletAddress,
      networks |-> << networkConfigs[1].chainId >>,
      totalUsdValue |-> total ] :
      total \in { Zero, << Number(25, 10) >>, NaN } }

\* the task of a wallet: pending, running or done with what it resolved with
\* (nothing for an empty address)
PendingWallet == [ pc |-> "pending", result |-> << >> ]

\* positions (from 1) of the wallets of the group that starts at index i
WalletGroup(i, walletAddresses) ==
  { w \in DOMAIN walletAddresses : i < w /\ w <= i + BATCH_SIZE }

launchWallets_all(tasks, i, walletAddresses) ==
  [ w \in DOMAIN tasks |->
      IF w <= i THEN tasks[w]
      ELSE IF walletAddresses[w] = "" THEN [ pc |-> "done", result |-> << >> ]
      ELSE [ pc |-> "running", result |-> << >> ] ]

\* batch.map(async ...): the task of every wallet of the group starts; the
\* task of an empty address resolves with null at once
launchWallets(tasks, i, walletAddresses) ==
  [ w \in DOMAIN tasks |->
      IF w \notin WalletGroup(i, walletAddresses) THEN tasks[w]
      ELSE IF walletAddresses[w] = "" THEN [ pc |-> "done", result |-> << >> ]
      ELSE [ pc |-> "running", result |-> << >> ] ]

\* frame of the actions of checkMultipleWallets
multiFrame ==
  UNCHANGED << clientCache, healthCache, now, calls, aggVars, evaluated, orphans,
               memoryCache, wallet, availability, fileCache, lookup >>

\* checkMultipleWallets up to its first suspension; with no address the loop
\* is not entered and the method returns
checkMultipleWallets(walletAddresses) ==
  /\ multi.pc = "idle"
  /\ multi' =
       IF Len(walletAddresses) = 0
         THEN [ multi EXCEPT !.pc = "returned", !.totalUsdValue = Zero,
                             !.ret = << [ wallets |-> << >>, totalUsdValue |-> Zero ] >> ]
         ELSE [ multi EXCEPT !.pc = "group", !.walletAddresses = walletAddresses,
                             !.totalUsdValue = Zero,
                             !.tasks = launchWallets([ w \in DOMAIN walletAddresses |->
                                                         PendingWallet ],
                                                     0, walletAddresses) ]
  /\ multiFrame

\* checkAllNetworks resolves for wallet w
walletReturns(w, results) ==
  /\ multi.pc = "group"
  /\ w \in DOMAIN multi.tasks
  /\ multi.tasks[w].pc = "running"
  /\ multi' = [ multi EXCEPT !.tasks[w] =
       [ pc |-> "done",
         result |-> << [ address |-> multi.walletAddresses[w], results |-> results ] >> ] ]
  /\ multiFrame

\* checkAllNetworks rejects for wallet w: the catch makes an entry with no
\* network and total 0
walletFails(w) ==
  /\ multi.pc = "group"
  /\ w \in DOMAIN multi.tasks
  /\ multi.tasks[w].pc = "running"
  /\ multi' = [ multi EXCEPT !.tasks[w] =
       [ pc |-> "done",
         result |-> << [ address |-> multi.walletAddresses[w],
                         results |-> [ walletAddress |-> multi.walletAddresses[w],
                                       networks |-> << >>,
                                       totalUsdValue |-> Zero ] ] >> ] ]
  /\ multiFrame

\* for (const result of batchResults): the entries that are not null are
\* pushed in order and their totals added up
RECURSIVE pushResults(_, _, _)
pushResults(walletResults, totalUsdValue, batchResults) ==
  IF batchResults = << >>
    THEN [ walletResults |-> walletResults, totalUsdValue |-> totalUsdValue ]
  ELSE IF Head(batchResults) = << >>
    THEN pushResults(walletResults, totalUsdValue, Tail(batchResults))
  ELSE pushResults(Append(walletResults, Head(batchResults)[1]),
                   Plus(totalUsdValue, Head(batchResults)[1].results.totalUsdValue),
                   Tail(batchResults))

\* Promise.all of the group resolves: its entries are pushed and the loop
\* goes on with the next group, or the method returns
walletGroupCompletes ==
  /\ multi.pc = "group"
  /\ \A w \in WalletGroup(multi.i, multi.walletAddresses) : multi.tasks[w].pc = "done"
  /\ LET group == WalletGroup(multi.i, multi.walletAddresses)
         batchResults == [ k \in 1 .. Cardinality(group) |-> multi.tasks[multi.i + k].result ]
         pushed == pushResults(multi.walletResults, multi.totalUsdValue, batchResults)
         i == multi.i + BATCH_SIZE
     IN  multi' =
           IF i < Len(multi.walletAddresses)
             THEN [ multi EXCEPT !.i = i, !.walletResults = pushed.walletResults,
                                 !.totalUsdValue = pushed.totalUsdValue,
                                 !.tasks = launchWallets(multi.tasks, i,
                                                         multi.walletAddresses) ]
             ELSE [ multi EXCEPT !.pc = "returned", !.i = i,
                                 !.walletResults = pushed.walletResults,
                                 !.totalUsdValue = pushed.totalUsdValue,
                                 !.ret = << [ wallets |-> pushed.walletResults,
                                              totalUsdValue |-> pushed.totalUsdValue ] >> ]
  /\ multiFrame

MultiWalletNext ==
  \/ \E walletAddresses \in WalletLists : checkMultipleWallets(walletAddresses)
  \/ \E w \in DOMAIN multi.tasks :
       \E results \in AllNetworksResults(multi.walletAddresses[w]) : walletReturns(w, results)
  \/ \E w \in DOMAIN multi.tasks : walletFails(w)
  \/ walletGroupCompletes

MultiWalletSpec == Init /\ [][MultiWalletNext]_vars

(* ------------------------ synchronous functions ------------------------ *)

supportsMulticall3_anyEntry(chainId) ==
  LET config == getNetworkConfig_findLast(chainId)
  IN  IF config # << >> THEN config[1].multicallAddress # "" ELSE FALSE

\* supportsMulticall3: config ? !!config.multicallAddress : false
supportsMulticall3(chainId) ==
  LET config == getNetworkConfig(chainId)
  IN  IF config # << >> THEN config[1].multicallAddress # "" ELSE FALSE

\* getMulticall3Address: config?.multicallAddress || null
getMulticall3Address(chainId) ==
  LET config == getNetworkConfig(chainId)
  IN  IF config # << >> /\ config[1].multicallAddress # ""
        THEN << config[1].multicallAddress >>
        ELSE << >>

\* batch sizes createBatches is applied to besides the ones of its caller
BatchSizes == 1 .. MaxTokens + 1

\* Raw balances and precisions formatTokenBalance is applied to: balances
\* with and without a fractional part at each precision, from one unit to
\* 10^23 and above, and the precisions 0, 1, 6 and 18 with the two around
\* the widest power of ten a double holds.
RawBalances ==
  { Scaled(n, e) : n \in { 0, 1, 15, 105, 1000001, 1500000 },
                   e \in { 0, 1, 5, 17, 22, 23 } }

Precisions == { 0, 1, 6, 18, ExactPow10, ExactPow10 + 1 }

\* one function is applied, once, to inputs drawn by the caller
Apply(op, args, ret) ==
  /\ evaluated' = [ op |-> op, args |-> args, ret |-> ret ]
  /\ UNCHANGED << clientCache, healthCache, now, calls, aggVars, restVars >>

\* a method that sends an aggregate call is applied: the sub-calls it
\* submits are kept with the answer it is given and what it returns
ApplyCalling(op, args, submitted, ret) ==
  /\ evaluated' = [ op |-> op, args |-> args, calls |-> submitted, ret |-> ret ]
  /\ UNCHANGED << clientCache, healthCache, now, calls, aggVars, restVars >>

FunctionsNext ==
  \/ /\ evaluated = NotEvaluated
     /\ \E chainId \in ChainIdInputs :
          Apply("supportsMulticall3", << chainId >>, supportsMulticall3(chainId))
  \/ /\ evaluated = NotEvaluated
     /\ \E chainId \in ChainIdInputs :
          Apply("getMulticall3Address", << chainId >>, getMulticall3Address(chainId))
  \/ /\ evaluated = NotEvaluated
     /\ \E tokens \in SeqsUpTo(DOMAIN Catalog, MaxTokens + 1), size \in BatchSizes :
          Apply("createBatches", << tokens, size >>, createBatches(tokens, size))
  \/ /\ evaluated = NotEvaluated
     /\ \E n \in LongTokenCounts :
          Apply("createBatches", << TokenList(n), batchSize(TokenList(n)) >>,
                createBatches(TokenList(n), batchSize(TokenList(n))))
  \/ /\ evaluated = NotEvaluated
     /\ \E tokens \in SeqsUpTo(DOMAIN Catalog, MaxTokens) :
          \E results \in [ 1 .. Len(tokens) -> SubCallResults ] :
            ApplyCalling("executeMulticallWithRPC", << tokens, results >>,
                         balanceOfCalls(tokens),
                         executeMulticallWithRPC(tokens, results))
  \/ /\ evaluated = NotEvaluated
     /\ \E balance \in RawBalances, decimals \in Precisions :
          \E divisor \in BigIntPow10(decimals) :
            Apply("formatTokenBalance", << balance, decimals >>,
                  formatTokenBalanceBigInt(balance, decimals, divisor))

FunctionsSpec == Init /\ [][FunctionsNext]_vars

(* ------------------------------- events -------------------------------- *)

\* this step is the call of op, and the call is number i
Called(i, op) ==
  /\ Len(calls') = Len(calls) + 1
  /\ i = Len(calls')
  /\ calls'[i].op = op

\* this step sends no health probe and no smoke test
NoRemoteCallSent ==
  \A j \in DOMAIN calls' :
    calls'[j].pc \in { "probing", "smoke" } =>
      ( j \in DOMAIN calls /\ calls[j].pc = calls'[j].pc )

RegisteredChainIds == { networkConfigs[i].chainId : i \in DOMAIN networkConfigs }

AllUnhealthy(seen) == \A i \in DOMAIN seen : ~seen[i].verdict

\* call i is in its walk and goes on in this step
Resumes(i) == i \in DOMAIN calls /\ calls[i].pc = "health" /\ calls'[i] # calls[i]

\* position of the endpoint whose health call i asks for in this step
ConsultIdx(i) == IF i \in DOMAIN calls THEN calls[i].idx ELSE 1

\* the verdicts call i held before this step
SeenBefore(i) == IF i \in DOMAIN calls THEN calls[i].seen ELSE << >>

\* in this step call i asks checkRPCHealth for a verdict
Consults(i) ==
  \/ Resumes(i)
  \/ Called(i, "createClient") /\ calls'[i].idx >= 1

(* ------------------------------- claims -------------------------------- *)

\* C1: a createClient call for a chain id that is not in the registry
\* returns at once with the unsupported-network error, leaves the client
\* cache and the health cache as they were, and sends no probe.
C1_UnknownChainFailsWithoutEffect ==
  [][ \A i \in DOMAIN calls' :
        ( Called(i, "createClient") /\ calls'[i].chainId \notin RegisteredChainIds )
        => /\ calls'[i].pc = "done"
           /\ calls'[i].ret = Throw("UnsupportedNetwork")
           /\ clientCache' = clientCache
           /\ healthCache' = healthCache
           /\ NoRemoteCallSent ]_vars

\* C1 witness: with both caches holding entries, the latest call was a
\* createClient for the unknown chain id and it failed.
C1_Witness ==
  /\ calls # << >>
  /\ LET r == calls[Len(calls)]
     IN  /\ r.op = "createClient"
         /\ r.chainId \in UnknownChainIds
         /\ r.ret = Throw("UnsupportedNetwork")
  /\ clientCache # EmptyMap /\ healthCache # EmptyMap

\* C2: the walk of findWorkingRPC goes through the endpoint list in order:
\* every verdict before the last one obtained is unhealthy, the endpoint
\* returned is the one at the position of the last verdict and that verdict
\* is healthy (so nothing after it was asked for), and the walk ends with
\* none exactly when it holds an unhealthy verdict for every endpoint.
C2_FirstHealthyInOrder ==
  \A i \in DOMAIN calls :
    ( calls[i].op = "createClient" /\ calls[i].config # << >> ) =>
      LET rpcUrls == calls[i].config[1].rpcUrls
          seen == calls[i].seen
          n == Len(seen)
      IN  /\ n <= Len(rpcUrls)
          /\ \A k \in 1 .. n - 1 : ~seen[k].verdict
          /\ calls[i].pc \in { "health", "probing" } =>
               /\ calls[i].idx = n + 1
               /\ AllUnhealthy(seen)
          /\ calls[i].rpc # << >> =>
               /\ n >= 1
               /\ seen[n].verdict
               /\ calls[i].rpc[1] = rpcUrls[n]
          /\ calls[i].ret = Throw("NoHealthyEndpoint")
               <=> ( n = Len(rpcUrls) /\ AllUnhealthy(seen) )

\* C2 witness: a walk returned the second endpoint of World Chain after an
\* unhealthy verdict for the first.
C2_Witness ==
  \E i \in DOMAIN calls :
    /\ calls[i].chainId = 480
    /\ Len(calls[i].seen) = 2
    /\ calls[i].rpc = << "https://worldchain-mainnet.gateway.tenderly.co" >>

\* C3: a health check that finds a verdict younger than the TTL returns that
\* verdict, sends no probe and leaves the cache alone; a health check that
\* finds no verdict, or one whose age is the TTL or more, sends a probe, and
\* the probe's answer overwrites the entry of that endpoint URL with the new
\* verdict and the current time.  The entry is looked up by the URL alone.
C3_VerdictReusedWithinTTL ==
  [][ \A i \in DOMAIN calls' :
        /\ Consults(i) =>
             LET key == cacheKey(calls'[i].config[1].rpcUrls[ConsultIdx(i)])
             IN  IF key \in DOMAIN healthCache
                    /\ now - healthCache[key].lastCheck < HEALTH_CHECK_TTL
                   THEN /\ calls'[i].pc # "probing"
                        /\ calls'[i].seen =
                             Append(SeenBefore(i),
                                    [ verdict |-> healthCache[key].isHealthy,
                                      probed |-> FALSE ])
                        /\ healthCache' = healthCache
                   ELSE /\ calls'[i].pc = "probing"
                        /\ calls'[i].idx = ConsultIdx(i)
                        /\ calls'[i].seen = SeenBefore(i)
        /\ ( i \in DOMAIN calls /\ calls[i].pc = "probing" /\ calls'[i].pc # "probing" ) =>
             LET key == cacheKey(calls[i].config[1].rpcUrls[calls[i].idx])
                 v == calls'[i].seen[Len(calls'[i].seen)]
             IN  /\ v.probed
                 /\ Len(calls'[i].seen) = Len(calls[i].seen) + 1
                 /\ DOMAIN healthCache' = DOMAIN healthCache \cup { key }
                 /\ healthCache'[key] = [ isHealthy |-> v.verdict, lastCheck |-> now ]
                 /\ \A k \in DOMAIN healthCache \ { key } :
                      healthCache'[k] = healthCache[k] ]_vars

\* C3 witness: one instant before the TTL of a verdict written at time 0 has
\* passed, the latest call has reused that verdict for its first endpoint.
C3_Witness ==
  /\ Len(calls) > 1
  /\ now = HEALTH_CHECK_TTL - 1
  /\ LET r == calls[Len(calls)]
     IN  /\ r.seen # << >> /\ ~r.seen[1].probed
         /\ LET key == cacheKey(r.config[1].rpcUrls[1])
            IN  key \in DOMAIN healthCache /\ healthCache[key].lastCheck = 0

\* C4: when the walk of a createClient call ends with an unhealthy verdict
\* for every endpoint of the network, the call fails with the
\* no-healthy-endpoint error and that step caches no client.
C4_NoHealthyEndpointFails ==
  [][ \A i \in DOMAIN calls' :
        ( /\ i \in DOMAIN calls => calls'[i] # calls[i]
          /\ calls'[i].op = "createClient"
          /\ calls'[i].config # << >>
          /\ Len(calls'[i].seen) = Len(calls'[i].config[1].rpcUrls)
          /\ AllUnhealthy(calls'[i].seen) )
        => /\ calls'[i].pc = "done"
           /\ calls'[i].ret = Throw("NoHealthyEndpoint")
           /\ clientCache' = clientCache ]_vars

\* C4 witness: a createClient call for World Chain failed with the
\* no-healthy-endpoint error and no client is cached for the chain id.
C4_Witness ==
  \E i \in DOMAIN calls :
    /\ calls[i].op = "createClient" /\ calls[i].chainId = 480
    /\ calls[i].ret = Throw("NoHealthyEndpoint")
    /\ 480 \notin DOMAIN clientCache

\* C5: a createClient call for a chain id that has a cached client returns
\* the cached handle at once: no probe, no smoke test, no change of either
\* cache, whatever the age of the health verdicts.
C5_CachedHandleReturned ==
  [][ \A i \in DOMAIN calls' :
        ( Called(i, "createClient") /\ calls'[i].chainId \in DOMAIN clientCache )
        => /\ calls'[i].pc = "done"
           /\ calls'[i].ret = ReturnClient(clientCache[calls'[i].chainId])
           /\ calls'[i].seen = << >>
           /\ NoRemoteCallSent
           /\ clientCache' = clientCache
           /\ healthCache' = healthCache ]_vars

\* C5 witness: the latest call got the handle an earlier call had built, at
\* a time when the verdict of the handle's endpoint had expired.
C5_Witness ==
  /\ calls # << >>
  /\ LET r == calls[Len(calls)]
     IN  /\ r.op = "createClient"
         /\ r.ret.kind = "client"
         /\ r.ret.client.id < Len(calls)
         /\ r.seen = << >>
         /\ LET key == cacheKey(r.ret.client.rpc)
            IN  /\ key \in DOMAIN healthCache
                /\ now - healthCache[key].lastCheck >= HEALTH_CHECK_TTL

\* C6: once a handle is cached for a chain id, it is not replaced by another
\* handle as long as the entry stays in the cache.
C6_CachedHandleNeverReplaced ==
  [][ \A c \in DOMAIN clientCache :
        c \in DOMAIN clientCache' => clientCache'[c] = clientCache[c] ]_vars

\* C7: on a network with two endpoints, a walk that holds an unhealthy
\* verdict for the first and a healthy one for the second selects the second,
\* and the client built on it is bound to the second; and a walk that starts
\* while the first endpoint's unhealthy verdict is younger than the TTL does
\* not probe the first endpoint: it goes on to the second with the verdict
\* unchanged.
C7_SecondEndpointWithoutRetry ==
  [][ \A i \in DOMAIN calls' :
        /\ ( /\ calls'[i].op = "createClient"
             /\ calls'[i].config # << >>
             /\ Len(calls'[i].config[1].rpcUrls) = 2
             /\ Len(calls'[i].seen) = 2
             /\ ~calls'[i].seen[1].verdict
             /\ calls'[i].seen[2].verdict )
           => /\ calls'[i].rpc = << calls'[i].config[1].rpcUrls[2] >>
              /\ calls'[i].pc \in { "smoke", "done" }
              /\ calls'[i].ret.kind = "client" =>
                   calls'[i].ret.client.rpc = calls'[i].config[1].rpcUrls[2]
        /\ ( /\ Consults(i)
             /\ ConsultIdx(i) = 1
             /\ Len(calls'[i].config[1].rpcUrls) = 2
             /\ LET key == cacheKey(calls'[i].config[1].rpcUrls[1])
                IN  /\ key \in DOMAIN healthCache
                    /\ ~healthCache[key].isHealthy
                    /\ now - healthCache[key].lastCheck < HEALTH_CHECK_TTL )
           => /\ calls'[i].pc = "health"
              /\ calls'[i].idx = 2
              /\ healthCache' = healthCache ]_vars

\* C7 witness: a createClient call for World Chain took the first endpoint's
\* unhealthy verdict from the cache, found the second healthy and returned a
\* client bound to the second.
C7_Witness ==
  \E i \in DOMAIN calls :
    /\ calls[i].chainId = 480 /\ Len(calls[i].seen) = 2
    /\ ~calls[i].seen[1].verdict /\ ~calls[i].seen[1].probed
    /\ calls[i].seen[2].verdict
    /\ calls[i].ret.kind = "client"
    /\ calls[i].ret.client.rpc = "https://worldchain-mainnet.gateway.tenderly.co"

\* C8: a getClientWithRPC call returns at once, sends no probe and no smoke
\* test and leaves both caches as they were; for a chain id of the registry
\* it returns a new handle bound to the endpoint it was given and to the
\* chain of the registry entry, and for any other chain id it fails with the
\* unsupported-network error.
C8_GetClientWithRPCBypassesCaches ==
  [][ \A i \in DOMAIN calls' :
        Called(i, "getClientWithRPC")
        => /\ calls'[i].pc = "done"
           /\ NoRemoteCallSent
           /\ clientCache' = clientCache
           /\ healthCache' = healthCache
           /\ IF calls'[i].chainId \in RegisteredChainIds
                THEN /\ calls'[i].ret.kind = "client"
                     /\ calls'[i].ret.client.rpc = calls'[i].rpcUrl[1]
                     /\ calls'[i].ret.client.id = i
                     /\ \E k \in DOMAIN networkConfigs :
                          /\ networkConfigs[k].chainId = calls'[i].chainId
                          /\ networkConfigs[k].chain = calls'[i].ret.client.chain
                ELSE calls'[i].ret = Throw("UnsupportedNetwork") ]_vars

\* C8 witness: getClientWithRPC returned a handle bound to an endpoint that
\* is not the first of the chain's list and whose cached verdict is unhealthy.
C8_Witness ==
  \E i \in DOMAIN calls :
    /\ calls[i].op = "getClientWithRPC" /\ calls[i].ret.kind = "client"
    /\ calls[i].ret.client.rpc # calls[i].config[1].rpcUrls[1]
    /\ LET key == cacheKey(calls[i].ret.client.rpc)
       IN  key \in DOMAIN healthCache /\ ~healthCache[key].isHealthy

\* C9: clearCache and closeAllConnections leave both caches empty, and a
\* step that removes an entry from either cache empties both and does
\* nothing else: no probe answer, no lapse of time and no call removes one.
C9_EntriesRemovedOnlyByReset ==
  [][ /\ ( clearCache \/ closeAllConnections )
           => ( clientCache' = EmptyMap /\ healthCache' = EmptyMap )
      /\ ( \/ \E k \in DOMAIN clientCache : k \notin DOMAIN clientCache'
           \/ \E k \in DOMAIN healthCache : k \notin DOMAIN healthCache' )
           => /\ clientCache' = EmptyMap
              /\ healthCache' = EmptyMap
              /\ UNCHANGED << calls, now >> ]_vars

\* C9 witness: a createClient call built and cached a client, and both
\* caches are empty now.
C9_Witness ==
  /\ clientCache = EmptyMap /\ healthCache = EmptyMap
  /\ \E i \in DOMAIN calls :
       /\ calls[i].op = "createClient" /\ calls[i].ret.kind = "client"
       /\ calls[i].ret.client.id = i

\* C10: the configuration a call works with is the first entry of the table
\* whose chain id is the one asked for, and null when there is none; for
\* chain id 999 it is the HyperEVM entry, never the Hyperliquid entry.
C10_LookupReturnsFirstMatch ==
  \A i \in DOMAIN calls :
    LET hits == { k \in DOMAIN networkConfigs :
                    networkConfigs[k].chainId = calls[i].chainId }
    IN  /\ calls[i].config = << >> <=> hits = {}
        /\ calls[i].config # << >> =>
             \E k \in hits :
               /\ calls[i].config[1] = networkConfigs[k]
               /\ \A j \in hits : k <= j
        /\ calls[i].chainId = 999 =>
             /\ calls[i].config # << >>
             /\ calls[i].config[1].name = "HyperEVM"
             /\ calls[i].config[1].name # "Hyperliquid"

\* C10 witness: a call for chain id 999 works with the HyperEVM entry.
C10_Witness ==
  \E i \in DOMAIN calls :
    /\ calls[i].chainId = 999
    /\ calls[i].config = << networkConfigs[2] >>

\* C11: supportsMulticall3 answers true exactly when the first registry entry
\* carrying the chain id has a non-empty multicall address, and false for a
\* chain id no entry carries.
C11_SupportsMulticall3IffAddress ==
  evaluated.op = "supportsMulticall3" =>
    LET chainId == evaluated.args[1]
        hits == { k \in DOMAIN networkConfigs : networkConfigs[k].chainId = chainId }
        first == CHOOSE k \in hits : \A j \in hits : k <= j
    IN  /\ hits = {} => evaluated.ret = FALSE
        /\ hits # {} =>
             ( evaluated.ret = TRUE <=> networkConfigs[first].multicallAddress # "" )

\* C11 witness: supportsMulticall3 answered true for chain id 999, whose
\* first entry has an address and whose second entry has none.
C11_Witness ==
  /\ evaluated.op = "supportsMulticall3"
  /\ evaluated.args = << 999 >>
  /\ evaluated.ret = TRUE
  /\ \E k \in DOMAIN networkConfigs :
       networkConfigs[k].chainId = 999 /\ networkConfigs[k].multicallAddress = ""

\* C12: for a token list of length N >= 1, checkTokenBalancesBatched cuts
\* the list with batch size 200 when N > 1000, 100 when N < 300 and 150
\* otherwise, N = 300 and N = 1000 included.
C12_BatchSizeByTokenCount ==
  LET N == Len(batched.tokens)
      first == IF N < batched.batchSize THEN N ELSE batched.batchSize
  IN  ( batched.pc # "idle" /\ N >= 1 ) =>
        /\ N > 1000 => batched.batchSize = 200
        /\ N < 300 => batched.batchSize = 100
        /\ ( 300 <= N /\ N <= 1000 ) => batched.batchSize = 150
        /\ Len(batched.batches[1]) = first

\* C12 witness: a list of exactly 1000 tokens was cut into batches of 150.
C12_Witness ==
  /\ Len(batched.tokens) = 1000
  /\ batched.batchSize = 150
  /\ Len(batched.batches) = 7
  /\ Len(batched.batches[1]) = 150

\* C13: createBatches partitions the list: the batches concatenated in order
\* are the input list, every batch has at least one and at most batchSize
\* tokens, and every batch but the last has exactly batchSize tokens.
C13_BatchesPartitionTokens ==
  evaluated.op = "createBatches" =>
    LET tokens == evaluated.args[1]
        size == evaluated.args[2]
        batches == evaluated.ret
    IN  /\ Flatten(batches) = tokens
        /\ \A b \in DOMAIN batches :
             /\ Len(batches[b]) >= 1
             /\ Len(batches[b]) <= size
             /\ b < Len(batches) => Len(batches[b]) = size

\* C13 witness: 901 tokens were cut into six batches of 150 and a last batch
\* of one token.
C13_Witness ==
  /\ evaluated.op = "createBatches"
  /\ Len(evaluated.args[1]) = 901
  /\ evaluated.args[2] = 150
  /\ Len(evaluated.ret) = 7
  /\ evaluated.ret[7] = << 901 >>

\* the task of a batch is running: an attempt is in flight or the delay
\* before the next attempt has not ended
Executing(t) == t.pc \in { "sent", "delay" }

\* C14: within one checkTokenBalancesBatched call at most 6 batches are
\* executing at any moment, and a batch is started only when every batch of
\* the groups before its own has returned its records or been abandoned.
C14_GroupsOfSixInTurn ==
  /\ Cardinality({ b \in DOMAIN batchTasks : Executing(batchTasks[b]) }) <= 6
  /\ \A b, c \in DOMAIN batchTasks :
       ( batchTasks[b].pc # "pending" /\ (c - 1) \div 6 < (b - 1) \div 6 )
         => Settled(batchTasks[c])

\* C14 witness: of seven batches the first five have finished, the sixth is
\* waiting for its second attempt, and the seventh has not been started.
C14_Witness ==
  /\ Len(batchTasks) = 7
  /\ \A b \in 1 .. 5 : Settled(batchTasks[b])
  /\ batchTasks[6].pc = "delay"
  /\ batchTasks[7].pc = "pending"

\* C15: for every batch, rotation makes at most 3 attempts; attempt k is sent
\* to the endpoint at position (k - 1) mod endpointCount of the network's
\* list, so at most 3 distinct endpoints are tried; an attempt is sent only
\* when the task starts or after the attempt before it has failed, and no
\* attempt follows a successful one.
C15_RotationThreeAttempts ==
  [][ \A b \in DOMAIN batchTasks' :
        LET t == batchTasks'[b]
            rpcUrls == batched'.rpcUrls
        IN  /\ Len(t.rpcs) <= 3
            /\ Cardinality(Range(t.rpcs)) <= 3
            /\ t.pc # "pending" => t.attempt = Len(t.rpcs) \/ Len(rpcUrls) = 0
            /\ \A k \in DOMAIN t.rpcs :
                 t.rpcs[k] = rpcUrls[((k - 1) % Len(rpcUrls)) + 1]
            /\ b \in DOMAIN batchTasks =>
                 LET s == batchTasks[b]
                 IN  /\ s.pc = "returned" => t = s
                     /\ s.pc = "abandoned" => t = s
                     /\ Len(t.rpcs) # Len(s.rpcs) =>
                          /\ Len(t.rpcs) = Len(s.rpcs) + 1
                          /\ s.pc \in { "pending", "delay" }
                          /\ t.pc = "sent" ]_vars

\* C15 witness: on the network with two endpoints a batch returned its
\* records at the third attempt, which went to the first endpoint again.
C15_Witness ==
  \E b \in DOMAIN batchTasks :
    /\ Len(batched.rpcUrls) = 2
    /\ batchTasks[b].pc = "returned"
    /\ batchTasks[b].rpcs = << batched.rpcUrls[1], batched.rpcUrls[2], batched.rpcUrls[1] >>

\* C16: a batch that has failed all its attempts contributes no record and
\* raises nothing: the call never ends with an error, and what it returns is
\* the records of the batches that succeeded, batch after batch, with nothing
\* of them missing, whichever group the abandoned batch was in.
C16_AbandonedBatchIsolated ==
  /\ batched.pc \in { "idle", "group", "returned" }
  /\ \A b \in DOMAIN batchTasks :
       batchTasks[b].pc = "abandoned" => batchTasks[b].result = << >>
  /\ ( batched.pc = "returned" /\ batched.tokens # << >> ) =>
       /\ \A b \in DOMAIN batchTasks : Settled(batchTasks[b])
       /\ batched.ret = << Flatten([ b \in DOMAIN batchTasks |->
                                      IF batchTasks[b].pc = "returned"
                                        THEN batchTasks[b].result ELSE << >> ]) >>
       /\ \A b \in DOMAIN batchTasks :
            batchTasks[b].pc = "returned" =>
              \A k \in DOMAIN batchTasks[b].result :
                \E j \in DOMAIN batched.ret[1] :
                  batched.ret[1][j] = batchTasks[b].result[k]

\* C16 witness: the call has returned; the first of seven batches was
\* abandoned after three attempts, and the records of the second batch (same
\* group) and of the seventh (next group) are in the result.
C16_Witness ==
  /\ batched.pc = "returned"
  /\ Len(batchTasks) = 7
  /\ batchTasks[1].pc = "abandoned" /\ Len(batchTasks[1].rpcs) = 3
  /\ batchTasks[2].pc = "returned" /\ batchTasks[2].result # << >>
  /\ batchTasks[7].pc = "returned" /\ batchTasks[7].result # << >>
  /\ batched.ret[1] = batchTasks[2].result \o Flatten([ k \in 1 .. 4 |-> batchTasks[k + 2].result ])
                        \o batchTasks[7].result

\* the sub-call for token i of an aggregate answer decodes to a balance
Decodable(results, i) == results[i].success /\ results[i].returnData.size >= 32

\* C17: for a batch and an aggregate answer in which K sub-calls report
\* success and the others failure, the batch yields at most K records, and
\* every record is that of a token whose sub-call reported success.
C17_RecordsOnlyForSuccess ==
  evaluated.op = "executeMulticallWithRPC" =>
    LET tokens == evaluated.args[1]
        results == evaluated.args[2]
        K == Cardinality({ i \in DOMAIN results : results[i].success })
    IN  /\ evaluated.ret # << >>
        /\ Len(evaluated.ret[1]) <= K
        /\ \A k \in DOMAIN evaluated.ret[1] :
             \E i \in DOMAIN tokens :
               /\ tokens[i] = evaluated.ret[1][k].address
               /\ results[i].success
               /\ results[i].returnData.value = evaluated.ret[1][k].balance

\* C17 witness: of two sub-calls the first reverted with error data long
\* enough to decode as a number and the second succeeded; the batch yielded
\* one record, that of the second token.
C17_Witness ==
  /\ evaluated.op = "executeMulticallWithRPC"
  /\ Len(evaluated.args[1]) = 2
  /\ evaluated.args[1][1] # evaluated.args[1][2]
  /\ ~evaluated.args[2][1].success /\ evaluated.args[2][1].returnData.size >= 32
  /\ evaluated.args[2][2].success
  /\ Len(evaluated.ret[1]) = 1
  /\ evaluated.ret[1][1].address = evaluated.args[1][2]

\* every record of the list has a raw balance above zero
AllPositive(records) == \A k \in DOMAIN records : records[k].balance > 0

\* C18: every token record the aggregator hands on has a raw balance
\* strictly above zero: the records a batch attempt returned, the batch
\* results collected by checkTokenBalancesBatched, the list it returns
\* through checkTokenBalances, and the token records of the network result.
C18_NoZeroBalanceSurfaces ==
  /\ \A b \in DOMAIN batchTasks : AllPositive(batchTasks[b].result)
  /\ \A g \in DOMAIN batched.batchResults : AllPositive(batched.batchResults[g])
  /\ batched.ret # << >> => AllPositive(batched.ret[1])
  /\ network # NoNetwork => AllPositive(network[1].tokenBalances)

\* C18 witness: for a list of 299 tokens, whose three batches were each
\* answered with one held balance and one balance of zero among the
\* sub-calls, the network result holds three token records.
C18_Witness ==
  /\ network # NoNetwork
  /\ Len(batched.tokens) = 299
  /\ Len(batched.batches) = 3
  /\ Len(network[1].tokenBalances) = 3

\* token i of the batch gets a record: its sub-call decodes to a balance
\* above zero and the token's precision can be formatted
Surfaced(tokens, results, i) ==
  /\ Decodable(results, i)
  /\ results[i].returnData.value > 0
  /\ TokenInfo(tokens[i]).decimals >= 0

\* C19: a sub-call that reports success with an empty or truncated payload
\* makes its token alone be skipped: the attempt still returns normally, and
\* every other token has its record exactly as if the payload had been
\* absent, so the records are those of the tokens that decode to a balance
\* above zero.
C19_UndecodablePayloadSkipped ==
  evaluated.op = "executeMulticallWithRPC" =>
    LET tokens == evaluated.args[1]
        results == evaluated.args[2]
        good == { i \in DOMAIN tokens : Surfaced(tokens, results, i) }
    IN  /\ evaluated.ret # << >>
        /\ Len(evaluated.ret[1]) = Cardinality(good)
        /\ \A i \in good :
             \E k \in DOMAIN evaluated.ret[1] :
               /\ evaluated.ret[1][k].address = tokens[i]
               /\ evaluated.ret[1][k].balance = results[i].returnData.value

\* C19 witness: the first sub-call reported success with a truncated
\* payload, the second with a held balance; the batch returned the record of
\* the second token alone.
C19_Witness ==
  /\ evaluated.op = "executeMulticallWithRPC"
  /\ Len(evaluated.args[1]) = 2
  /\ evaluated.args[2][1] = [ success |-> TRUE, returnData |-> ShortData ]
  /\ evaluated.args[2][2].success
  /\ evaluated.ret # << >>
  /\ Len(evaluated.ret[1]) = 1
  /\ evaluated.ret[1][1].address = evaluated.args[1][2]
  /\ evaluated.ret[1][1].balance = HeldBalance

\* unit prices that are not above zero, and unit prices that are no number
NonPositivePrices == { << "0" >>, << "-", "1" >> }

UnparsablePrices == { << >>, << "a", "b", "c" >> }

\* C20: a token whose sub-call decodes to a balance above zero gets its
\* record whatever its unit price is, and when the price is non-positive or
\* unparsable the USD value of the record is 0.
C20_UnpricedBalanceKept ==
  evaluated.op = "executeMulticallWithRPC" =>
    LET tokens == evaluated.args[1]
        results == evaluated.args[2]
    IN  /\ evaluated.ret # << >>
        /\ \A i \in DOMAIN tokens :
             Surfaced(tokens, results, i) =>
               \E k \in DOMAIN evaluated.ret[1] :
                 LET r == evaluated.ret[1][k]
                 IN  /\ r.address = tokens[i]
                     /\ r.balance = results[i].returnData.value
                     /\ r.priceUSD = TokenInfo(tokens[i]).priceUSD
                     /\ r.priceUSD \in NonPositivePrices \cup UnparsablePrices
                          => r.usdValue = [ num |-> 0, den |-> 1 ]

\* C20 witness: a record with a held balance, an unparsable unit price and
\* USD value 0 was returned next to a record with a positive USD value.
C20_Witness ==
  /\ evaluated.op = "executeMulticallWithRPC"
  /\ Len(evaluated.ret[1]) = 2
  /\ evaluated.ret[1][1].priceUSD \in UnparsablePrices
  /\ evaluated.ret[1][1].balance = HeldBalance
  /\ evaluated.ret[1][1].usdValue.num = 0
  /\ evaluated.ret[1][2].usdValue.num > 0

\* C21: within one batch order is kept end to end: sub-call i is built from
\* token i, result i is attributed to token i, and the records come in the
\* order of their tokens, so the k-th record is that of the k-th token of the
\* batch that gets a record, with the balance its own sub-call returned.
C21_OrderPreservedInBatch ==
  evaluated.op = "executeMulticallWithRPC" =>
    LET tokens == evaluated.args[1]
        results == evaluated.args[2]
        records == evaluated.ret[1]
        good == { i \in DOMAIN tokens : Surfaced(tokens, results, i) }
        rank(i) == Cardinality({ j \in good : j <= i })
    IN  /\ Len(evaluated.calls) = Len(tokens)
        /\ \A i \in DOMAIN tokens : evaluated.calls[i].target = tokens[i]
        /\ Len(records) = Cardinality(good)
        /\ \A i \in good :
             /\ records[rank(i)].address = tokens[i]
             /\ records[rank(i)].decimals = TokenInfo(tokens[i]).decimals
             /\ records[rank(i)].priceUSD = TokenInfo(tokens[i]).priceUSD
             /\ records[rank(i)].balance = results[i].returnData.value

\* C21 witness: two different tokens both hold a balance and the records
\* are those of the first and of the second token, in that order.
C21_Witness ==
  /\ evaluated.op = "executeMulticallWithRPC"
  /\ Len(evaluated.args[1]) = 2
  /\ evaluated.args[1][1] # evaluated.args[1][2]
  /\ Len(evaluated.ret[1]) = 2
  /\ evaluated.ret[1][1].address = evaluated.args[1][1]
  /\ evaluated.ret[1][2].address = evaluated.args[1][2]
  /\ evaluated.calls[2].target = evaluated.args[1][2]

\* the decimal notation of raw / 10^precision written from the digits of raw
\* alone: the digits before the last precision ones (0 when there is none),
\* then, unless they are all zeros, a point and the last precision digits
\* without their trailing zeros
DecimalNotation(raw, precision) ==
  LET padded == padStart(BigToString(raw), precision + 1, "0")
      whole == SubSeq(padded, 1, Len(padded) - precision)
      fraction == trimZeros(SubSeq(padded, Len(padded) - precision + 1, Len(padded)))
  IN  IF fraction = << >> THEN whole ELSE whole \o << "." >> \o fraction

\* the last precision digits of raw are zeros (raw = 0 included)
MultipleOfPow10(raw, precision) ==
  raw = << 0 >> \/ ( Len(raw) > precision /\
                     \A i \in Len(raw) - precision + 1 .. Len(raw) : raw[i] = 0 )

\* C27: formatTokenBalance(raw, precision) is the integer part, then, only
\* when the fractional part is not zero, a point and the fractional digits
\* padded on the left to the precision with trailing zeros removed:
\* 1500000 at precision 6 gives "1.5", precision 0 gives the integer string
\* unchanged, and a multiple of 10^precision gives no decimal point.
C27_FormatIsDecimalNotation ==
  evaluated.op = "formatTokenBalance" =>
    LET raw == evaluated.args[1]
        precision == evaluated.args[2]
    IN  /\ evaluated.ret = DecimalNotation(raw, precision)
        /\ precision = 0 => evaluated.ret = BigToString(raw)
        /\ MultipleOfPow10(raw, precision) =>
             \A i \in DOMAIN evaluated.ret : evaluated.ret[i] # "."
        /\ ( raw = Scaled(1500000, 0) /\ precision = 6 ) =>
             evaluated.ret = << "1", ".", "5" >>

\* formatTokenBalance is the decimal notation at every precision whose power
\* of ten a double holds exactly
FormatIsDecimalNotationUpTo22 ==
  ( evaluated.op = "formatTokenBalance" /\ evaluated.args[2] <= ExactPow10 ) =>
    evaluated.ret = DecimalNotation(evaluated.args[1], evaluated.args[2])

\* 1500000 formatted at precision 6
FormattedOneAndAHalf ==
  /\ evaluated.op = "formatTokenBalance"
  /\ evaluated.args = << Scaled(1500000, 0), 6 >>
  /\ evaluated.ret = << "1", ".", "5" >>

\* the task of a batch once the catch of the rotation loop has taken the
\* failure of its attempt in flight
AfterCatch(t) ==
  IF t.attempt < maxAttempts
    THEN [ t EXCEPT !.pc = "delay" ]
    ELSE [ t EXCEPT !.pc = "abandoned", !.result = << >> ]

\* C29: an attempt whose aggregate call has not answered when the 10 s timer
\* fires is handled like one that failed with a transport error: the batch
\* is left as the catch leaves it after any failure (the attempt counts as
\* one of the 3), the attempt after the delay goes to the next endpoint in
\* rotation with a request of its own, and the late answer of the request
\* that timed out changes nothing.
C29_TimeoutHandledLikeFailure ==
  [][ /\ \A b \in DOMAIN batchTasks :
           /\ << b, batchTasks[b].attempt >> \in orphans' \ orphans =>
                /\ batchTasks[b].pc = "sent"
                /\ batchTasks' = [ batchTasks EXCEPT ![b] = AfterCatch(batchTasks[b]) ]
           /\ ( batchTasks[b].pc = "delay" /\ batchTasks'[b].pc = "sent" ) =>
                /\ batchTasks'[b].attempt = batchTasks[b].attempt + 1
                /\ batchTasks'[b].attempt <= maxAttempts
                /\ batchTasks'[b].rpcs =
                     Append(batchTasks[b].rpcs,
                            batched.rpcUrls[( batchTasks[b].attempt
                                                % Len(batched.rpcUrls) ) + 1])
                /\ << b, batchTasks'[b].attempt >> \notin orphans'
      /\ orphans' # orphans =>
           \/ \E o \in orphans :
                orphans' = orphans \ { o } /\ batchTasks' = batchTasks /\ batched' = batched
           \/ \E b \in DOMAIN batchTasks :
                orphans' = orphans \cup { << b, batchTasks[b].attempt >> }
    ]_vars

\* C29 witness: the first attempt of a batch timed out and its request is
\* still in flight while the second attempt is in flight on the second
\* endpoint.
C29_Witness ==
  /\ batchTasks # << >>
  /\ << 1, 1 >> \in orphans
  /\ batchTasks[1].pc = "sent"
  /\ batchTasks[1].attempt = 2
  /\ Len(batched.rpcUrls) >= 2
  /\ batchTasks[1].rpcs = << batched.rpcUrls[1], batched.rpcUrls[2] >>

\* C30: attempt k + 1 of a batch is dispatched only by the end of the 500 ms
\* delay that followed the failure of attempt k; the delay starts only at
\* the failure of an attempt that is not the last, and a batch whose
\* attempt succeeded, or whose last attempt failed, settles without one.
C30_DelayBetweenAttempts ==
  [][ \A b \in DOMAIN batchTasks :
        LET t == batchTasks[b]
            u == batchTasks'[b]
        IN  /\ ( u.pc = "sent" /\ t.attempt >= 1 /\ u.attempt # t.attempt ) =>
                 t.pc = "delay" /\ u.attempt = t.attempt + 1
            /\ ( u.pc = "delay" /\ t.pc # "delay" ) =>
                 t.pc = "sent" /\ t.attempt < maxAttempts /\ u.attempt = t.attempt
            /\ ( t.pc = "sent" /\ u # t ) =>
                 u.pc \in { "returned", IF t.attempt < maxAttempts
                                          THEN "delay" ELSE "abandoned" }
            /\ ( Settled(u) /\ ~Settled(t) ) => t.pc \in { "sent", "pending" }
    ]_vars

\* C30 witness: the second attempt of a batch has failed and the delay
\* before the third is running.
C30_Witness ==
  /\ batchTasks # << >>
  /\ batchTasks[1].pc = "delay"
  /\ batchTasks[1].attempt = 2
  /\ Len(batchTasks[1].rpcs) = 2

\* the native-balance fetch of a query is outstanding: checkNativeBalance has
\* been called and has not returned
NativeFetchOutstanding(q) == wallet.queries[q].pc \in { "client", "balance", "price" }

\* C22 as stated: the token balance check does not wait for the
\* native-balance fetch, so for a network that has tokens it is running
\* while the native-balance fetch is outstanding.
C22_TokenCheckDoesNotWait ==
  \A q \in DOMAIN wallet.queries :
    NativeFetchOutstanding(q) /\ wallet.queries[q].tokens # << >>
      => wallet.queries[q].tokenCheck = "running"

\* C22, amended: checkSingleNetwork awaits the native-balance fetch before it
\* calls checkTokenBalances, so no token balance check is running or done
\* while the native-balance fetch of the query is outstanding, and a token
\* check that has started has the fetched native balance behind it.
C22_TokenCheckAfterNativeFetch ==
  \A q \in DOMAIN wallet.queries :
    /\ NativeFetchOutstanding(q) => wallet.queries[q].tokenCheck = "unstarted"
    /\ wallet.queries[q].tokenCheck # "unstarted" => wallet.queries[q].fetched # << >>

C22_Witness ==
  \E q \in DOMAIN wallet.queries :
    /\ wallet.queries[q].pc = "aggregator"
    /\ wallet.queries[q].tokenCheck = "running"
    /\ wallet.queries[q].tokens # << >>
    /\ wallet.queries[q].fetched # << >>

\* the sum of a sequence of numbers over the common denominator den
RECURSIVE NumeratorSum(_, _)
NumeratorSum(terms, den) ==
  IF terms = << >> THEN 0
  ELSE Head(terms)[1].num * (den \div Head(terms)[1].den) + NumeratorSum(Tail(terms), den)

\* total is the sum of the terms as floating-point addition gives it: NaN
\* when a term is NaN
IsSumOf(total, terms) ==
  IF \E i \in DOMAIN terms : terms[i] = NaN THEN total = NaN
  ELSE /\ total # NaN
       /\ LET dens == { terms[i][1].den : i \in DOMAIN terms } \cup { total[1].den }
              den == CHOOSE d \in dens : \A e \in dens : e <= d
          IN  total[1].num * (den \div total[1].den) = NumeratorSum(terms, den)

\* C23: the total of every result checkSingleNetwork returned is its native
\* USD value plus the USD values of exactly the token records in that
\* result, and the total of a checkAllNetworks result is the sum of the
\* totals of its networks.
C23_TotalsAreSums ==
  /\ \A q \in DOMAIN wallet.queries :
       wallet.queries[q].pc = "returned" =>
         LET entry == wallet.queries[q].entry[1]
         IN  IsSumOf(entry.totalUsdValue,
                     << entry.nativeBalance.usdValue >> \o
                       [ i \in DOMAIN entry.tokenBalances |->
                           << entry.tokenBalances[i].usdValue >> ])
  /\ wallet.pc = "returned" =>
       LET result == wallet.result[1]
       IN  IsSumOf(result.totalUsdValue,
                   [ i \in DOMAIN result.networks |-> result.networks[i].totalUsdValue ])

\* a returned wallet query of two networks, one with a valued native balance
\* and two valued token records, the other with a total of its own
C23_Witness ==
  /\ wallet.pc = "returned"
  /\ Len(wallet.result[1].networks) = 2
  /\ \E i, j \in DOMAIN wallet.result[1].networks :
       LET entry == wallet.result[1].networks[i]
           other == wallet.result[1].networks[j]
       IN  /\ i # j
           /\ wallet.queries[i].pc = "returned"
           /\ entry.nativeBalance.usdValue # NaN
           /\ entry.nativeBalance.usdValue[1].num > 0
           /\ Len(entry.tokenBalances) = 2
           /\ \A k \in 1 .. 2 : entry.tokenBalances[k].usdValue.num > 0
           /\ wallet.queries[j].pc = "returned"
           /\ other.totalUsdValue # entry.totalUsdValue
           /\ wallet.result[1].totalUsdValue \notin { entry.totalUsdValue, other.totalUsdValue }

\* the entry of a network whose check failed: native balance 0, no token
\* balances, total 0
IsZeroEntry(entry) ==
  /\ entry.nativeBalance.balance = << 0 >>
  /\ entry.nativeBalance.balanceFormatted = << "0" >>
  /\ entry.nativeBalance.usdValue = Zero
  /\ entry.tokenBalances = << >>
  /\ entry.totalUsdValue = Zero

\* the result of checkAllNetworks has one entry per requested chain id in
\* request order; the entry of a failed check is the zero entry and the entry
\* of any other check is what that check returned, with the native balance
\* that was fetched for it
ResultPerRequest ==
  wallet.pc = "returned" =>
    LET networks == wallet.result[1].networks
    IN  /\ Len(networks) = Len(wallet.chainIds)
        /\ \A i \in DOMAIN networks :
             /\ networks[i].chainId = wallet.chainIds[i]
             /\ wallet.queries[i].pc = "thrown" => IsZeroEntry(networks[i])
             /\ wallet.queries[i].pc = "returned" =>
                  /\ networks[i] = wallet.queries[i].entry[1]
                  /\ networks[i].nativeBalance.balance = wallet.queries[i].fetched[1]

\* a step in which the check of one network fails changes nothing of the
\* checks of the other networks
FailureIsolated ==
  \A q \in DOMAIN wallet.queries :
    (/\ wallet'.pc = "running"
     /\ wallet.pc = "running"
     /\ wallet.queries[q].pc # "thrown"
     /\ wallet'.queries[q].pc = "thrown")
      => \A r \in DOMAIN wallet.queries \ { q } : wallet'.queries[r] = wallet.queries[r]

\* C24: checkAllNetworks returns one entry per requested chain id in request
\* order; a network whose check failed gets the zero entry, and its failure
\* leaves the checks and the entries of the other networks as they are.
C24_FailedNetworkBecomesPlaceholder ==
  [][ResultPerRequest' /\ FailureIsolated]_vars

\* checkAllNetworks has returned for two networks of the registry: the check
\* of the first failed after its catalog fetch, the second has a native
\* balance and a token record
C24_Witness ==
  /\ wallet.pc = "returned"
  /\ wallet.chainIds = << 480, 999 >>
  /\ wallet.queries[1].pc = "thrown"
  /\ wallet.queries[1].catalog = "fetched"
  /\ wallet.queries[2].pc = "returned"
  /\ wallet.result[1].networks[2].nativeBalance.balance # << 0 >>
  /\ wallet.result[1].networks[2].tokenBalances # << >>

\* C25: when the catalog fetch of a network of the registry fails, the query
\* goes on to the native balance call with an empty token set, and the
\* native balance fetched for it is the one in the network's entry.
C25_CatalogFailureKeepsNative ==
  [][\A q \in DOMAIN wallet.queries :
       /\ (/\ wallet.pc = "running"
           /\ wallet.queries[q].pc = "tokens"
           /\ wallet'.queries[q].catalog = "failed")
            => /\ wallet'.queries[q].pc = "client"
               /\ wallet'.queries[q].tokens = << >>
       /\ (/\ wallet'.queries[q].catalog = "failed"
           /\ wallet'.queries[q].pc \in { "returned", "thrown" }
           /\ wallet'.queries[q].fetched # << >>)
            => wallet'.queries[q].entry[1].nativeBalance.balance
                 = wallet'.queries[q].fetched[1]]_vars

\* the awaits of a query at which it waits for a remote peer: the catalog
\* fetch, getClient (health probes and smoke test), the native balance
\* call, the catalog fetch of the native price and the aggregate calls
RemoteWaits == { "tokens", "client", "balance", "price", "aggregator" }

\* C26: every remote call a balance query waits for is bounded by a timeout,
\* so that the query goes on when the peer never answers.
C26_EveryRemoteCallTimed ==
  \A q \in DOMAIN wallet.queries :
    wallet.queries[q].pc \in RemoteWaits => wallet.queries[q].timer > 0

\* some endpoint in rpcUrls has a healthy verdict in the health cache
SomeHealthyVerdict(rpcUrls, cache) ==
  \E k \in DOMAIN rpcUrls :
    /\ cacheKey(rpcUrls[k]) \in DOMAIN cache
    /\ cache[cacheKey(rpcUrls[k])].isHealthy

\* the record pushed for the registry entry at index i, judged against the
\* endpoints of config
RecordJudgedOn(record, i, config, cache) ==
  /\ record.chainId = networkConfigs[i].chainId
  /\ record.name = networkConfigs[i].name
  /\ record.isAvailable <=> record.workingRPC # << >>
  /\ record.workingRPC # << >> <=> SomeHealthyVerdict(config.rpcUrls, cache)

\* C28: the records come one per registry entry in registration order, and
\* the record of an entry is available exactly when it carries a working
\* endpoint, which is exactly when some endpoint of that entry has a healthy
\* verdict.
C28_AvailableIffHealthyEndpoint ==
  [][Len(availability'.results) = Len(availability.results) + 1
       => LET i == Len(availability'.results)
          IN  /\ i <= Len(networkConfigs)
              /\ RecordJudgedOn(availability'.results[i], i, networkConfigs[i],
                                healthCache')]_vars

\* What holds of the records: the same with the entry that the lookup of the
\* chain id returns in place of the record's own entry.
RecordsJudgedOnLookedUpEntry ==
  [][Len(availability'.results) = Len(availability.results) + 1
       => LET i == Len(availability'.results)
          IN  /\ i <= Len(networkConfigs)
              /\ RecordJudgedOn(availability'.results[i], i, walked(i),
                                healthCache')]_vars

\* the call has returned one record per entry
AvailabilityReturned ==
  /\ availability.pc = "returned"
  /\ Len(availability.results) = Len(networkConfigs)
  /\ \E i, j \in DOMAIN availability.results :
       availability.results[i].isAvailable /\ ~availability.results[j].isAvailable

\* C31: the step in which a request that had timed out (an aggregate call
\* or a native balance call) is answered changes no batch task, so neither
\* the records nor the retry that followed, nothing of the aggregator call,
\* and nothing of the network query or of the result it returned.
C31_LateAnswerDiscarded ==
  [][(orphans' # orphans /\ orphans' \subseteq orphans)
       => UNCHANGED << batchTasks, batched, network, wallet, memoryCache >>]_vars

\* Failures are timeouts only here, so a second attempt with no request of
\* the first in flight means the late answer of the first has arrived: it
\* did while or after the retry returned the records that are the token
\* balances of the returned result.
C31_Witness ==
  /\ wallet.pc = "returned"
  /\ wallet.queries[1].pc = "returned"
  /\ batchTasks # << >>
  /\ batchTasks[1].pc = "returned"
  /\ batchTasks[1].attempt = 2
  /\ orphans = {}
  /\ batchTasks[1].result # << >>
  /\ wallet.result[1].networks[1].tokenBalances = batchTasks[1].result

\* the probe of call i is in flight for an endpoint whose health cache
\* entry is fresh: call i missed the cache before that entry was written, so
\* the entry is the verdict of a probe that ran concurrently with the one of
\* call i
ConcurrentVerdictCached(i) ==
  /\ calls[i].pc = "probing"
  /\ LET key == cacheKey(calls[i].config[1].rpcUrls[calls[i].idx])
     IN  key \in DOMAIN healthCache /\ IsFresh(healthCache[key], now)

\* C32: when two callers probe an endpoint concurrently, the verdict the
\* second probe to finish writes is the verdict the first one wrote, so the
\* cached healthy flag is the same whichever of them finishes last.
C32_ConcurrentVerdictsConverge ==
  [][\A i \in DOMAIN calls :
       (ConcurrentVerdictCached(i) /\ calls'[i].pc # "probing")
         => LET key == cacheKey(calls[i].config[1].rpcUrls[calls[i].idx])
            IN  /\ key \in DOMAIN healthCache'
                /\ healthCache'[key].isHealthy = healthCache[key].isHealthy]_vars

C34_CachedListAtMostCacheDurationOld ==
  (lookup.pc = "returned" /\ lookup.from \in { "memory", "file" })
    => lookup.at - lookup.fetched <= CACHE_DURATION

\* position of the record's token in the token list
PositionOf(record, tokens) ==
  CHOOSE p \in DOMAIN tokens : tokens[p] = record.address

\* C35: the record list checkTokenBalancesBatched returns is a subsequence
\* of the input token list in input order, in whatever order the batches
\* completed: every record is the record of an input token that the task of
\* the token's batch returned, the tokens of the records stand at strictly
\* growing positions of the input (so no token has two records), and the
\* records of a batch come before those of every later batch.
C35_RecordsInInputOrder ==
  batched.pc = "returned" =>
    LET records == batched.ret[1]
        tokens == batched.tokens
        position(k) == PositionOf(records[k], tokens)
        batchOf(k) == ((position(k) - 1) \div batched.batchSize) + 1
    IN  /\ \A k \in DOMAIN records :
             /\ \E p \in DOMAIN tokens : tokens[p] = records[k].address
             /\ \E r \in DOMAIN batchTasks[batchOf(k)].result :
                  batchTasks[batchOf(k)].result[r] = records[k]
        /\ \A k \in DOMAIN records :
             k < Len(records) =>
               /\ position(k) < position(k + 1)
               /\ batchOf(k) <= batchOf(k + 1)

\* C35 witness: 299 tokens went out in three concurrent batches; the first
\* batch got its records on its third attempt only, the other two on their
\* first, and the three records returned are those of tokens 1, 101 and 201.
C35_Witness ==
  /\ batched.pc = "returned"
  /\ Len(batched.tokens) = 299
  /\ batchTasks[1].attempt = 3
  /\ batchTasks[2].attempt = 1
  /\ batchTasks[3].attempt = 1
  /\ Len(batched.ret[1]) = 3
  /\ batched.ret[1][1].address = 1
  /\ batched.ret[1][2].address = 101
  /\ batched.ret[1][3].address = 201

\* call i of createClient has failed in its smoke test
SmokeTestFailed(i) ==
  calls[i].pc = "done" /\ calls[i].ret = Throw("ClientCreationFailed")

\* the verdicts that led call i to its endpoint are all cached and fresh: the
\* endpoints before it unhealthy, its own healthy
VerdictsStand(i) ==
  \A k \in 1 .. calls[i].idx :
    LET key == cacheKey(calls[i].config[1].rpcUrls[k])
    IN  /\ key \in DOMAIN healthCache
        /\ IsFresh(healthCache[key], now)
        /\ healthCache[key].isHealthy = (k = calls[i].idx)

\* C36: a handle enters the client cache only in the step in which its own
\* smoke test passes.  When the smoke test on the selected endpoint fails,
\* createClient throws at once without moving to a later endpoint, and the
\* client cache and the health cache stay as they were, so the verdict of
\* the endpoint stays healthy; a further createClient for the chain that
\* finds those verdicts fresh sends no probe, walks no further than that
\* endpoint and selects it again.
C36_SmokeFailureLeavesVerdictHealthy ==
  [][ /\ \A c \in DOMAIN clientCache' :
           (c \notin DOMAIN clientCache \/ clientCache'[c] # clientCache[c])
             => \E i \in DOMAIN calls :
                  /\ calls[i].pc = "smoke"
                  /\ calls[i].chainId = c
                  /\ calls'[i].ret = ReturnClient(clientCache'[c])
                  /\ clientCache'[c].rpc = calls[i].rpc[1]
      /\ \A i \in DOMAIN calls :
           (calls[i].pc = "smoke" /\ calls'[i].ret = Throw("ClientCreationFailed"))
             => /\ calls'[i].pc = "done"
                /\ calls'[i].idx = calls[i].idx
                /\ clientCache' = clientCache
                /\ healthCache' = healthCache
      /\ \A i \in DOMAIN calls, j \in DOMAIN calls' :
           ( /\ SmokeTestFailed(i)
             /\ VerdictsStand(i)
             /\ calls'[j].op = "createClient"
             /\ calls'[j].chainId = calls[i].chainId
             /\ ~ hasClient(calls[i].chainId)
             /\ \/ j \notin DOMAIN calls
                \/ calls[j].pc = "health" /\ calls[j].idx <= calls[i].idx
                     /\ calls'[j] # calls[j] )
             => \/ calls'[j].pc = "smoke" /\ calls'[j].rpc = calls[i].rpc
                \/ calls'[j].pc = "health" /\ calls'[j].idx <= calls[i].idx
    ]_vars

\* C36 witness: the first call found the second endpoint of its network
\* healthy and failed in its smoke test there; the client cache is empty,
\* and the second call, on cached verdicts alone, has selected the second
\* endpoint again.
C36_Witness ==
  /\ Len(calls) >= 2
  /\ SmokeTestFailed(1)
  /\ calls[1].idx = 2
  /\ VerdictsStand(1)
  /\ clientCache = EmptyMap
  /\ calls[2].op = "createClient"
  /\ calls[2].chainId = calls[1].chainId
  /\ calls[2].pc = "smoke"
  /\ calls[2].rpc = calls[1].rpc
  /\ \A k \in DOMAIN calls[2].seen : ~ calls[2].seen[k].probed

\* endpoints at positions 0, 1 and 2 of the list
FirstThree(rpcUrls) == { rpcUrls[p] : p \in { q \in DOMAIN rpcUrls : q <= 3 } }

\* C37: batch rotation sends aggregate calls only to the endpoints at
\* positions 0, 1 and 2 of the endpoint list of the network and its first
\* call goes to position 0, whatever the cached verdicts say and whichever
\* endpoint getClient selected; with fewer than 3 endpoints a call beyond
\* the length of the list goes to an endpoint already attempted; with an
\* empty list no call is sent, no delay is taken and the batch is abandoned.
C37_RotationIgnoresVerdicts ==
  batched.pc \in { "group", "returned" } =>
    \A b \in DOMAIN batchTasks :
      LET t == batchTasks[b]
          rpcUrls == batched.rpcUrls
      IN  /\ \A k \in DOMAIN t.rpcs : t.rpcs[k] \in FirstThree(rpcUrls)
          /\ t.rpcs # << >> => t.rpcs[1] = rpcUrls[1]
          /\ \A k \in DOMAIN t.rpcs :
               k > Len(rpcUrls) => \E m \in 1 .. k - 1 : t.rpcs[m] = t.rpcs[k]
          /\ (rpcUrls = << >> /\ t.pc # "pending")
               => t.pc = "abandoned" /\ t.rpcs = << >> /\ t.result = << >>

\* C37 witness: the first endpoint of the network is cached as unhealthy
\* and the cached client is on the second endpoint; the batch was sent to
\* the first endpoint, then to the second, then to the first again.
C37_Witness ==
  /\ batched.pc = "group"
  /\ Len(batched.rpcUrls) = 2
  /\ cacheKey(batched.rpcUrls[1]) \in DOMAIN healthCache
  /\ ~ healthCache[cacheKey(batched.rpcUrls[1])].isHealthy
  /\ batched.chainId \in DOMAIN clientCache
  /\ clientCache[batched.chainId].rpc = batched.rpcUrls[2]
  /\ batchTasks[1].rpcs = << batched.rpcUrls[1], batched.rpcUrls[2], batched.rpcUrls[1] >>

\* a number that is not NaN and not negative
WellDefinedNonNegative(x) == x # NaN /\ x[1].num >= 0

\* C38: the USD value of the native balance record of a network is always a
\* well-defined number that is not negative (0 when the price of the first
\* token of the catalog list is not positive or cannot be parsed, or the
\* list is empty or unavailable), and so the total USD value of the network
\* and of the wallet are well-defined numbers.
C38_NativeUsdValueWellDefined ==
  /\ \A q \in DOMAIN wallet.queries :
       wallet.queries[q].pc = "returned" =>
         /\ WellDefinedNonNegative(wallet.queries[q].entry[1].nativeBalance.usdValue)
         /\ wallet.queries[q].entry[1].totalUsdValue # NaN
  /\ wallet.pc = "returned" => wallet.result[1].totalUsdValue # NaN

\* the addresses of the list that are not empty, in order
NonEmptyAddresses(walletAddresses) == SelectSeq(walletAddresses, LAMBDA a : a # "")

\* C39: checkMultipleWallets works through the list in consecutive groups of
\* at most 8 wallets: at most 8 wallets are being checked at any moment and a
\* wallet is started only when every wallet of the groups before its own has
\* completed; the call has no failing exit; what it returns has one entry per
\* non-empty address of the input, in input order, each entry is what the
\* wallet's task resolved with, and totalUsdValue is the sum of the totals of
\* the entries.
C39_WalletsInGroupsOfEight ==
  /\ multi.pc \in { "idle", "group", "returned" }
  /\ Cardinality({ w \in DOMAIN multi.tasks : multi.tasks[w].pc = "running" }) <= 8
  /\ \A w, v \in DOMAIN multi.tasks :
       ( multi.tasks[w].pc # "pending" /\ (v - 1) \div 8 < (w - 1) \div 8 )
         => multi.tasks[v].pc = "done"
  /\ multi.pc = "returned" =>
       LET wallets == multi.ret[1].wallets
           addresses == NonEmptyAddresses(multi.walletAddresses)
       IN  /\ Len(wallets) = Len(addresses)
           /\ \A k \in DOMAIN wallets :
                /\ wallets[k].address = addresses[k]
                /\ \E w \in DOMAIN multi.tasks : multi.tasks[w].result = << wallets[k] >>
           /\ IsSumOf(multi.ret[1].totalUsdValue,
                      [ k \in DOMAIN wallets |-> wallets[k].results.totalUsdValue ])

\* C39 witness: nine entries, two of them empty, were checked in a group of
\* six wallets and a group of one; a wallet of the first group failed, two
\* wallets have totals that are not 0, and the seven entries returned add up
\* to the total.
C39_Witness ==
  /\ multi.pc = "returned"
  /\ Len(multi.walletAddresses) = 9
  /\ Len(multi.ret[1].wallets) = 7
  /\ multi.ret[1].wallets[2].results.networks = << >>
  /\ multi.ret[1].wallets[1].results.totalUsdValue = << Number(25, 10) >>
  /\ multi.ret[1].wallets[7].results.totalUsdValue = << Number(25, 10) >>
  /\ multi.ret[1].wallets[7].address = "0xA9"
  /\ multi.ret[1].totalUsdValue = << Number(5, 1) >>

\* C40: in the availability report the working endpoint of the record of a
\* registry entry is one of the endpoints that entry lists, also for the two
\* entries that carry chain id 999.
C40_WorkingEndpointOfOwnEntry ==
  \A i \in DOMAIN availability.results :
    availability.results[i].workingRPC # << >>
      => availability.results[i].workingRPC[1] \in Range(networkConfigs[i].rpcUrls)

====
